---- MODULE Spec2Model ----
(***************************************************************************)
(* Model of the createAttach primitive (Attachment), createBoolLazyFalse   *)
(* (TriStateVisibility) and the OverlayProvider store (OverlayRegistry).   *)
(*                                                                         *)
(* Every operation of the source is one atomic action: the program is      *)
(* single-threaded and each handler runs to completion, reactive effects   *)
(* included, before the next event is taken.  Handlers, disposers and      *)
(* hooks are assumed to return normally and not to call back into the      *)
(* object that is invoking them.                                           *)
(***************************************************************************)
EXTENDS Naturals, Integers, Sequences, FiniteSets, TLC

(***************************************************************************)
(* Bounds of the model                                                     *)
(***************************************************************************)
\* number of disposer functions handlers may return in one behaviour
MaxDisp == 2
\* number of handler functions registered in one behaviour
MaxFuncs == 2
\* number of timers of one createBoolLazyFalse that may be pending together
MaxTimers == 2
\* number of completion callbacks passed to set / toggle in one behaviour
MaxCbs == 3
\* largest scroll offset of the window
MaxScroll == 1

(***************************************************************************)
(* Values                                                                  *)
(***************************************************************************)
\* `undefined` as an element reference
None == "none"
\* the DOM elements the rendering layer hands to attach
Elements == {"e1", "e2"}
\* listener keys used by callers; "default" is the default key of onAttach
Keys == {"default", "k1"}
\* the handlers createBoolLazyFalse queues under 'lazybool-animation': the
\* closure over (classIn, classOut) made in state TRUE and the closure over
\* (classOut, classIn) made in state BECOMING_FALSE
AnimFunc == 0
AnimOutFunc == -1
AnimFuncs == {AnimFunc, AnimOutFunc}
AnimKey == "lazybool-animation"
\* the element the rendering layer hands to the elementRef of an overlay
OverlayElements == {"e1"}
\* the ids overlays are registered under
Ids == {"A", "B"}
\* `undefined` as an overlay id or a string
Undefined == "undefined"
\* `undefined` as the result of overlays.get(id), and a visibilityState
\* that no timer and no entry refers to
NoOverlay == [absent |-> TRUE]
NoVis == [absent |-> TRUE]

VARIABLES
    document,     \* globalThis.document is available (FALSE: server rendering)
    att,          \* one createAttach instance: [element_, listeners]
    log,          \* handler / disposer invocations of the last operation, in order
    calls,        \* disposer id -> number of times it has been invoked
    nextDisp,     \* number of disposers returned so far
    finv,         \* handler function id -> number of times it has been invoked
    fonce,        \* handler function ids registered with once = true
    nextFunc,     \* number of handler functions registered so far
    vis,          \* one createBoolLazyFalse instance bound to att
    nextCb,       \* number of completion callbacks passed so far
    firedCbs,     \* completion callbacks that have been invoked
    dropped,      \* callbacks of an exit transition superseded before it landed
    overlays,        \* overlayStore.overlays: id -> OverlayData or NoOverlay
    ovis,            \* id -> the entry's visibilityState (createBoolLazyFalse)
    oatt,            \* id -> the elementRef of the overlay (createAttach)
    openOverlays,    \* overlayStore.openOverlays, in insertion order
    topmostOverlay,  \* overlayStore.topmostOverlay
    scrollLockCount, \* overlayStore.scrollLockCount
    savedScrollY,    \* savedScrollY of the provider
    scrollY,         \* window.scrollY
    scrollLocked,    \* document.documentElement.dataset.scrollLocked
    afterCloseSaw,   \* what isOpen(id) was when onAfterClose ran in the last operation
    orphans,         \* entries replaced by a registration under their id while
                     \* their exit timer is pending: <<[id, v, overlay]>>
    overlayList,     \* Array.from(overlayStore.overlays.values()), as far as
                     \* getOverlaysByPortal reads it: <<[id, portalTarget, contentComponent]>>
    registrations,   \* the registry calls made so far, in order:
                     \* <<[op, id, portalTarget, contentComponent]>>
    trad,            \* one instance of the traditional createBoolLazyFalse
    onChangeCalls,   \* the completion callbacks vis has invoked, in order,
                     \* with their first argument: <<[cb, arg]>>
    tradOnChangeCalls, \* the same for trad
    behavior,        \* id -> closeOnEscape and closeOnOutsideClick of the entry
    triggerEl,       \* id -> triggerElementRef of useOverlay holds an element
    closeCalls,      \* the ids whose document listener called closeOverlay
                     \* for the last key or click event
    lastOp        \* the last operation: [op, id, arg]

attVars == <<document, att, log, calls, nextDisp, finv, fonce, nextFunc>>
visVars == <<vis, nextCb, firedCbs, dropped>>
portalVars == <<overlayList, registrations>>
tradVars == <<trad, onChangeCalls, tradOnChangeCalls>>
keyVars == <<behavior, triggerEl, closeCalls>>
auxVars == <<portalVars, tradVars, keyVars>>
storeVars == <<overlays, ovis, oatt, openOverlays, topmostOverlay, scrollLockCount,
               savedScrollY, scrollY, scrollLocked, afterCloseSaw, orphans>>
regVars == <<storeVars, auxVars>>
vars == <<attVars, visVars, regVars, lastOp>>

Op(op, id, arg) == [op |-> op, id |-> id, arg |-> arg]

Min2(a, b) == IF a < b THEN a ELSE b

(***************************************************************************)
(* createAttach                                                            *)
(***************************************************************************)
\* type EventData = { func, once, cleanupFn? }, stored under its key;
\* cleanupFn = 0 is an absent cleanupFn
EventData(key, func, once) ==
    [key |-> key, func |-> func, once |-> once, cleanupFn |-> 0]

\* log entries
HandlerEv(data, el) ==
    [ev |-> "handler", key |-> data.key, func |-> data.func, el |-> el, disp |-> 0]
CleanupEv(data, fn) ==
    [ev |-> "cleanup", key |-> data.key, func |-> data.func, el |-> None, disp |-> fn]

\* data.cleanupFn?.()
CallCleanup(data) ==
    IF data.cleanupFn # 0 THEN <<CleanupEv(data, data.cleanupFn)>> ELSE <<>>

\* for (const data of listeners.values()) data.cleanupFn?.()
RECURSIVE CleanupPass(_)
CleanupPass(ls) ==
    IF ls = <<>> THEN <<>>
    ELSE CallCleanup(Head(ls)) \o CleanupPass(Tail(ls))

\* HandlerPass that forgets listeners.delete(key) for a once listener
RECURSIVE HandlerPass_KeepsOnce(_, _, _, _)
HandlerPass_KeepsOnce(rest, el, rets, acc) ==
    IF rest = <<>> THEN acc
    ELSE LET data == Head(rest)
             i == acc.i + 1
             returned == data.func \notin AnimFuncs /\ rets[i]
             nd == IF returned THEN acc.nd + 1 ELSE acc.nd
             after == [data EXCEPT !.cleanupFn = IF returned THEN nd ELSE @]
             onceLog == IF data.once THEN CallCleanup(after) ELSE <<>>
         IN  HandlerPass_KeepsOnce(Tail(rest), el, rets,
                [i |-> i,
                 ls |-> Append(acc.ls, after),
                 log |-> acc.log \o <<HandlerEv(data, el)>> \o onceLog,
                 nd |-> nd])

\* the second loop of attach: every handler is called with el, a returned
\* function replaces cleanupFn, a once listener runs cleanupFn and is deleted.
\* rets[i] says whether the i-th handler returns a function.
RECURSIVE HandlerPass(_, _, _, _)
HandlerPass(rest, el, rets, acc) ==
    IF rest = <<>> THEN acc
    ELSE LET data == Head(rest)
             i == acc.i + 1
             returned == data.func \notin AnimFuncs /\ rets[i]
             nd == IF returned THEN acc.nd + 1 ELSE acc.nd
             after == [data EXCEPT !.cleanupFn = IF returned THEN nd ELSE @]
             onceLog == IF data.once THEN CallCleanup(after) ELSE <<>>
         IN  HandlerPass(Tail(rest), el, rets,
                [i |-> i,
                 ls |-> IF data.once THEN acc.ls ELSE Append(acc.ls, after),
                 log |-> acc.log \o <<HandlerEv(data, el)>> \o onceLog,
                 nd |-> nd])

\* attach without the test `el === element_`
Attach_WithoutSameTest(a, el, rets, nd, doc) ==
    IF ~doc
    THEN [a |-> a, log |-> <<>>, nd |-> nd]
    ELSE LET pre == IF a.element_ # None THEN CleanupPass(a.listeners) ELSE <<>>
             r == HandlerPass(a.listeners, el, rets,
                              [i |-> 0, ls |-> <<>>, log |-> <<>>, nd |-> nd])
         IN  [a |-> [element_ |-> el, listeners |-> r.ls],
              log |-> pre \o r.log,
              nd |-> r.nd]

\* attach that calls the handlers before the cleanups of the previous element
Attach_HandlersFirst(a, el, rets, nd, doc) ==
    IF el = a.element_ \/ ~doc
    THEN [a |-> a, log |-> <<>>, nd |-> nd]
    ELSE LET pre == IF a.element_ # None THEN CleanupPass(a.listeners) ELSE <<>>
             r == HandlerPass(a.listeners, el, rets,
                              [i |-> 0, ls |-> <<>>, log |-> <<>>, nd |-> nd])
         IN  [a |-> [element_ |-> el, listeners |-> r.ls],
              log |-> r.log \o pre,
              nd |-> r.nd]

\* attach(el)
Attach(a, el, rets, nd, doc) ==
    IF el = a.element_ \/ ~doc
    THEN [a |-> a, log |-> <<>>, nd |-> nd]
    ELSE LET pre == IF a.element_ # None THEN CleanupPass(a.listeners) ELSE <<>>
             r == HandlerPass(a.listeners, el, rets,
                              [i |-> 0, ls |-> <<>>, log |-> <<>>, nd |-> nd])
         IN  [a |-> [element_ |-> el, listeners |-> r.ls],
              log |-> pre \o r.log,
              nd |-> r.nd]

\* attachment()
attachment(a) == a.element_

\* index of the listener stored under key, 0 if there is none
IndexOf(ls, key) ==
    IF \E i \in 1..Len(ls) : ls[i].key = key
    THEN CHOOSE i \in 1..Len(ls) : ls[i].key = key
    ELSE 0

\* onAttach that calls the handler at once when an element is bound
OnAttach_FiresImmediately(a, func, key, once) ==
    LET i == IndexOf(a.listeners, key)
        pre == IF i # 0 THEN CallCleanup(a.listeners[i]) ELSE <<>>
        data == EventData(key, func, once)
        fire == IF a.element_ # None THEN <<HandlerEv(data, a.element_)>> ELSE <<>>
    IN  [a |-> [a EXCEPT !.listeners =
                    IF i # 0 THEN [@ EXCEPT ![i] = data] ELSE Append(@, data)],
         log |-> pre \o fire]

\* onAttach that adds the listener without looking for one under the key
OnAttach_KeepsOld(a, func, key, once) ==
    [a |-> [a EXCEPT !.listeners = Append(@, EventData(key, func, once))],
     log |-> <<>>]

\* onAttach(handler, key, once): Map.set keeps the position of an existing key
OnAttach(a, func, key, once) ==
    LET i == IndexOf(a.listeners, key)
        pre == IF i # 0 THEN CallCleanup(a.listeners[i]) ELSE <<>>
        data == EventData(key, func, once)
    IN  [a |-> [a EXCEPT !.listeners =
                    IF i # 0 THEN [@ EXCEPT ![i] = data] ELSE Append(@, data)],
         log |-> pre]

\* detach() that runs the cleanups but forgets `listeners = undefined`
DetachAll_KeepsListeners(a) ==
    [a |-> [element_ |-> None, listeners |-> a.listeners],
     log |-> CleanupPass(a.listeners)]

\* detach() without argument
DetachAll(a) ==
    [a |-> [element_ |-> None, listeners |-> <<>>],
     log |-> CleanupPass(a.listeners)]

\* removeHandler(handlerKey) inside detach
RemoveHandler(a, key) ==
    LET i == IndexOf(a.listeners, key)
    IN  [a |-> [a EXCEPT !.listeners =
                    SelectSeq(@, LAMBDA d : d.key # key)],
         log |-> IF i # 0 THEN CallCleanup(a.listeners[i]) ELSE <<>>,
         existed |-> i # 0]

\* a detach(options) that accepts every combination of flags
DetachThrows_Never(clearEvents, clearDefaultEvent, eventsOnly) ==
    FALSE

\* the parameter check of detach(options)
DetachThrows(clearEvents, clearDefaultEvent, eventsOnly) ==
    eventsOnly /\ ~clearEvents /\ ~clearDefaultEvent

\* detach(options) that clears the bound element whatever eventsOnly says
DetachOptions_IgnoresEventsOnly(a, clearEvents, clearDefaultEvent, eventsOnly) ==
    LET selected == SelectSeq(a.listeners,
                        LAMBDA d : clearEvents \/ (clearDefaultEvent /\ d.key = "default"))
        kept == IF clearEvents /\ clearDefaultEvent THEN <<>>
                ELSE IF clearEvents
                     THEN SelectSeq(a.listeners, LAMBDA d : d.key = "default")
                     ELSE IF clearDefaultEvent
                          THEN SelectSeq(a.listeners, LAMBDA d : d.key # "default")
                          ELSE a.listeners
    IN  [a |-> [element_ |-> None, listeners |-> kept],
         log |-> CleanupPass(selected)]

\* detach({clearEvents, clearDefaultEvent, eventsOnly}) when it does not throw
DetachOptions(a, clearEvents, clearDefaultEvent, eventsOnly) ==
    LET selected == SelectSeq(a.listeners,
                        LAMBDA d : clearEvents \/ (clearDefaultEvent /\ d.key = "default"))
        kept == IF clearEvents /\ clearDefaultEvent THEN <<>>
                ELSE IF clearEvents
                     THEN SelectSeq(a.listeners, LAMBDA d : d.key = "default")
                     ELSE IF clearDefaultEvent
                          THEN SelectSeq(a.listeners, LAMBDA d : d.key # "default")
                          ELSE a.listeners
    IN  [a |-> [element_ |-> IF eventsOnly THEN a.element_ ELSE None,
                listeners |-> kept],
         log |-> CleanupPass(selected)]

(***************************************************************************)
(* createBoolLazyFalse                                                     *)
(***************************************************************************)
\* enum BoolLazyFalseState
FALSE_ == "FALSE"
BECOMING_FALSE == "BECOMING_FALSE"
TRUE_ == "TRUE"

\* `undefined` as a completion callback
NoCb == "undefined"

\* createBoolLazyFalse(initialValue, options): the signal, `timeout`, `onChange`;
\* timers are the handles of this instance that setTimeout still holds,
\* timeout = 0 is `undefined`, disposed says that the root was disposed
createBoolLazyFalse(initialValue) ==
    [state |-> IF initialValue THEN TRUE_ ELSE FALSE_,
     timers |-> {},
     timeout |-> 0,
     onChange |-> NoCb,
     disposed |-> FALSE]

\* clearTimeouts that forgets clearTimeout(timeout)
clearTimeouts_KeepsTimer(v) ==
    [v EXCEPT !.onChange = NoCb]

\* clearTimeouts: clearTimeout(timeout) and onChange = undefined
clearTimeouts(v) ==
    [v EXCEPT !.timers = @ \ {v.timeout}, !.onChange = NoCb]

\* the handle setTimeout returns: one that is not pending
NewHandle(v) == CHOOSE h \in 1..(MaxTimers + 1) : h \notin v.timers

\* set whose test for a close accepts every state but FALSE, so that
\* set(false) during BECOMING_FALSE starts the exit again
Set_RestartsExit(v, value, cb) ==
    LET boolTrue == value /\ v.state # TRUE_
        boolFalse == ~value /\ v.state # FALSE_
        c == [clearTimeouts(v) EXCEPT !.onChange = cb]
    IN  IF ~boolTrue /\ ~boolFalse THEN [v |-> v, ran |-> FALSE]
        ELSE IF boolTrue
             THEN [v |-> [c EXCEPT !.state = TRUE_], ran |-> TRUE]
             ELSE [v |-> [c EXCEPT !.state = BECOMING_FALSE,
                                   !.timers = @ \cup {NewHandle(c)},
                                   !.timeout = NewHandle(c)],
                   ran |-> TRUE]

\* set that enters BECOMING_FALSE without setTimeout
Set_WithoutTimer(v, value, cb) ==
    LET boolTrue == value /\ v.state # TRUE_
        boolFalse == ~value /\ v.state = TRUE_
        c == [clearTimeouts(v) EXCEPT !.onChange = cb]
    IN  IF ~boolTrue /\ ~boolFalse THEN [v |-> v, ran |-> FALSE]
        ELSE IF boolTrue
             THEN [v |-> [c EXCEPT !.state = TRUE_], ran |-> TRUE]
             ELSE [v |-> [c EXCEPT !.state = BECOMING_FALSE], ran |-> TRUE]

\* set that stores the callback without calling clearTimeouts first
Set_WithoutClear(v, value, cb) ==
    LET boolTrue == value /\ v.state # TRUE_
        boolFalse == ~value /\ v.state = TRUE_
        c == [v EXCEPT !.onChange = cb]
    IN  IF ~boolTrue /\ ~boolFalse THEN [v |-> v, ran |-> FALSE]
        ELSE IF boolTrue
             THEN [v |-> [c EXCEPT !.state = TRUE_], ran |-> TRUE]
             ELSE [v |-> [c EXCEPT !.state = BECOMING_FALSE,
                                   !.timers = @ \cup {NewHandle(c)},
                                   !.timeout = NewHandle(c)],
                   ran |-> TRUE]

\* set(value, OnChangeCallback); ran says that the signal changed, so that
\* the effect on(state) runs before set returns
Set(v, value, cb) ==
    LET boolTrue == value /\ v.state # TRUE_
        boolFalse == ~value /\ v.state = TRUE_
        c == [clearTimeouts(v) EXCEPT !.onChange = cb]
    IN  IF ~boolTrue /\ ~boolFalse THEN [v |-> v, ran |-> FALSE]
        ELSE IF boolTrue
             THEN [v |-> [c EXCEPT !.state = TRUE_], ran |-> TRUE]
             ELSE [v |-> [c EXCEPT !.state = BECOMING_FALSE,
                                   !.timers = @ \cup {NewHandle(c)},
                                   !.timeout = NewHandle(c)],
                   ran |-> TRUE]

\* the argument of toggle's call of set
ToggleValue(v) == v.state # TRUE_

\* a timer callback whose setState(FALSE) does not notify the effect
TimerFire_Silent(v, h) ==
    [v |-> [v EXCEPT !.timers = @ \ {h}, !.state = FALSE_],
     ran |-> FALSE]

\* the callback of setTimeout: setState(FALSE); the signal only notifies
\* when the value changes
TimerFire(v, h) ==
    [v |-> [v EXCEPT !.timers = @ \ {h}, !.state = FALSE_],
     ran |-> v.state # FALSE_]

\* EffectFired without the test for BECOMING_FALSE
EffectFired_AlsoWhenBecomingFalse(v) ==
    IF ~v.disposed /\ v.onChange # NoCb
    THEN v.onChange
    ELSE NoCb

\* the effect on(state): the callback it fires, NoCb if none
EffectFired(v) ==
    IF ~v.disposed /\ v.state # BECOMING_FALSE /\ v.onChange # NoCb
    THEN v.onChange
    ELSE NoCb

\* the effect on(state): the class swap it asks for
EffectAnim(v) ==
    IF v.disposed \/ v.state = FALSE_ THEN "none"
    ELSE IF v.state = TRUE_ THEN "in" ELSE "out"

\* the animation part queuing a listener that is not a once listener
ApplyAnim_QueuesPersistent(a, anim) ==
    IF anim = "none" \/ attachment(a) # None THEN a
    ELSE OnAttach(a, IF anim = "in" THEN AnimFunc ELSE AnimOutFunc, AnimKey, FALSE).a

\* the effect on(state), animation part: Animate on the bound element, or a
\* once listener queued under 'lazybool-animation' when there is none
ApplyAnim(a, anim) ==
    IF anim = "none" \/ attachment(a) # None THEN a
    ELSE OnAttach(a, IF anim = "in" THEN AnimFunc ELSE AnimOutFunc, AnimKey, TRUE).a

\* cleanup() that clears the timeout but forgets dispose()
Cleanup_WithoutDispose(v) == clearTimeouts(v)

\* cleanup() that disposes the root but forgets clearTimeouts()
Cleanup_KeepsTimer(v) == [v EXCEPT !.disposed = TRUE]

\* cleanup(): clearTimeouts and dispose
Cleanup(v) == [clearTimeouts(v) EXCEPT !.disposed = TRUE]

lazyBool(v) == v.state # FALSE_
bool(v) == v.state = TRUE_

(***************************************************************************)
(* OverlayProvider                                                         *)
(***************************************************************************)
\* Set.has and Set.delete on the insertion-ordered openOverlays
Has(set, id) == \E i \in 1..Len(set) : set[i] = id
Delete(set, id) == SelectSeq(set, LAMBDA x : x # id)

\* OverlayData as far as the provider reads it: lockScroll is "true", "false"
\* or Undefined; hooks says that the entry has onBeforeOpen, onBeforeClose
\* and onAfterClose hooks, each of which may set event.cancel when called
OverlayData(lockScroll, hooks, wasScrollLocked) ==
    [lockScroll |-> lockScroll, hooks |-> hooks, wasScrollLocked |-> wasScrollLocked]

LockScrollValues == {"true", "false", Undefined}

\* overlay.lockScroll ?? true
LockScrollOrTrue(overlay) == overlay.lockScroll # "false"

\* the fields of overlayStore that updateOverlayVisibilityState writes
Store ==
    [openOverlays |-> openOverlays,
     topmostOverlay |-> topmostOverlay,
     scrollLockCount |-> scrollLockCount]

\* updateOverlayVisibilityState that counts an opening of an open overlay again
updateOverlayVisibilityState_CountsReopen(st, id, shouldLockScroll, isOpening) ==
    LET wasAlreadyOpen == Has(st.openOverlays, id)
        newSet == IF isOpening
                  THEN Append(Delete(st.openOverlays, id), id)
                  ELSE Delete(st.openOverlays, id)
        top == IF isOpening THEN id
               ELSE IF newSet = <<>> \/ newSet[Len(newSet)] = ""
                    THEN Undefined ELSE newSet[Len(newSet)]
        count == IF shouldLockScroll /\ isOpening
                 THEN st.scrollLockCount + 1
                 ELSE IF shouldLockScroll /\ ~isOpening /\ wasAlreadyOpen
                      THEN st.scrollLockCount - 1
                      ELSE st.scrollLockCount
    IN  [openOverlays |-> newSet, topmostOverlay |-> top, scrollLockCount |-> count]

\* updateOverlayVisibilityState that decrements for an id that was not open
updateOverlayVisibilityState_DecrementsUnopened(st, id, shouldLockScroll, isOpening) ==
    LET wasAlreadyOpen == Has(st.openOverlays, id)
        newSet == IF isOpening
                  THEN Append(Delete(st.openOverlays, id), id)
                  ELSE Delete(st.openOverlays, id)
        top == IF isOpening THEN id
               ELSE IF newSet = <<>> \/ newSet[Len(newSet)] = ""
                    THEN Undefined ELSE newSet[Len(newSet)]
        count == IF shouldLockScroll /\ isOpening /\ ~wasAlreadyOpen
                 THEN st.scrollLockCount + 1
                 ELSE IF shouldLockScroll /\ ~isOpening
                      THEN st.scrollLockCount - 1
                      ELSE st.scrollLockCount
    IN  [openOverlays |-> newSet, topmostOverlay |-> top, scrollLockCount |-> count]

\* updateOverlayVisibilityState(id, shouldLockScroll, isOpening)
updateOverlayVisibilityState(st, id, shouldLockScroll, isOpening) ==
    LET wasAlreadyOpen == Has(st.openOverlays, id)
        newSet == IF isOpening
                  THEN Append(Delete(st.openOverlays, id), id)
                  ELSE Delete(st.openOverlays, id)
        top == IF isOpening THEN id
               ELSE IF newSet = <<>> \/ newSet[Len(newSet)] = ""
                    THEN Undefined ELSE newSet[Len(newSet)]
        count == IF shouldLockScroll /\ isOpening /\ ~wasAlreadyOpen
                 THEN st.scrollLockCount + 1
                 ELSE IF shouldLockScroll /\ ~isOpening /\ wasAlreadyOpen
                      THEN st.scrollLockCount - 1
                      ELSE st.scrollLockCount
    IN  [openOverlays |-> newSet, topmostOverlay |-> top, scrollLockCount |-> count]

\* the scroll lock effect capturing the offset whenever the count is positive
ScrollLockEffect_Recaptures(count, saved, y, locked) ==
    LET lock == count > 0
        restore == ~lock /\ count <= 0 /\ saved # -1
    IN  [scrollLockCount |-> IF count < 0 THEN 0 ELSE count,
         savedScrollY |-> IF lock THEN y ELSE IF restore THEN -1 ELSE saved,
         scrollY |-> IF restore THEN saved ELSE y,
         scrollLocked |-> IF lock THEN "true" ELSE IF restore THEN "false" ELSE locked]

\* the scroll lock effect without `if (scrollLockCount < 0) setOverlayStore(..., 0)`
ScrollLockEffect_WithoutClamp(count, saved, y, locked) ==
    LET lock == count > 0 /\ saved = -1
        restore == ~lock /\ count <= 0 /\ saved # -1
    IN  [scrollLockCount |-> count,
         savedScrollY |-> IF lock THEN y ELSE IF restore THEN -1 ELSE saved,
         scrollY |-> IF restore THEN saved ELSE y,
         scrollLocked |-> IF lock THEN "true" ELSE IF restore THEN "false" ELSE locked]

\* the effect on overlayStore.scrollLockCount, run after the count changed
ScrollLockEffect(count, saved, y, locked) ==
    LET lock == count > 0 /\ saved = -1
        restore == ~lock /\ count <= 0 /\ saved # -1
    IN  [scrollLockCount |-> IF count < 0 THEN 0 ELSE count,
         savedScrollY |-> IF lock THEN y ELSE IF restore THEN -1 ELSE saved,
         scrollY |-> IF restore THEN saved ELSE y,
         scrollLocked |-> IF lock THEN "true" ELSE IF restore THEN "false" ELSE locked]

\* the store and the document after an operation left the store fields st
Commit(st) ==
    LET e == IF st.scrollLockCount # scrollLockCount
             THEN ScrollLockEffect(st.scrollLockCount, savedScrollY, scrollY, scrollLocked)
             ELSE [scrollLockCount |-> scrollLockCount, savedScrollY |-> savedScrollY,
                   scrollY |-> scrollY, scrollLocked |-> scrollLocked]
    IN  /\ openOverlays' = st.openOverlays
        /\ topmostOverlay' = st.topmostOverlay
        /\ scrollLockCount' = e.scrollLockCount
        /\ savedScrollY' = e.savedScrollY
        /\ scrollY' = e.scrollY
        /\ scrollLocked' = e.scrollLocked

\* isOpen(id), isTopmost(id)
isOpen(id) == Has(openOverlays, id)
isTopmost(id) == topmostOverlay = id

\* the run of the effect on(state) of the entry's visibilityState after the
\* operation r on it, with the completion callbacks openOverlay and
\* closeOverlay pass to set: the entry, the store fields, the elementRef and
\* what onAfterClose saw.  cancel says whether onAfterClose sets event.cancel.
EffectOnEntry(id, r, cancel) ==
    LET cb == IF r.ran THEN EffectFired(r.v) ELSE NoCb
        overlay == overlays[id]
        lock == LockScrollOrTrue(overlay)
        view == IF isOpen(id) THEN "open" ELSE "closed"
        after ==
            IF cb = "open"
            THEN [overlay |-> [overlay EXCEPT !.wasScrollLocked = lock],
                  st |-> updateOverlayVisibilityState(Store, id, lock, TRUE),
                  a |-> oatt[id], saw |-> "-", arg |-> "done"]
            ELSE IF cb = "close"
            THEN IF overlay.hooks /\ cancel
                 THEN [overlay |-> overlay, st |-> Store, a |-> oatt[id],
                       saw |-> view, arg |-> "cancelled"]
                 ELSE [overlay |-> overlay,
                       st |-> updateOverlayVisibilityState(Store, id, overlay.wasScrollLocked, FALSE),
                       a |-> DetachAll(oatt[id]).a,
                       saw |-> IF overlay.hooks THEN view ELSE "-", arg |-> "done"]
            ELSE [overlay |-> overlays[id], st |-> Store, a |-> oatt[id],
                  saw |-> "-", arg |-> "pending"]
    IN  [after EXCEPT !.a = IF r.ran THEN ApplyAnim(@, EffectAnim(r.v)) ELSE @]

\* the assignments of an operation on a registered overlay that ran set or
\* the timer callback on its visibilityState
Settle(id, r, cancel, name) ==
    LET e == EffectOnEntry(id, r, cancel)
    IN  /\ ovis' = [ovis EXCEPT ![id] = r.v]
        /\ overlays' = [overlays EXCEPT ![id] = e.overlay]
        /\ oatt' = [oatt EXCEPT ![id] = e.a]
        /\ Commit(e.st)
        /\ afterCloseSaw' = e.saw
        /\ lastOp' = Op(name, id, IF r.ran THEN e.arg ELSE "noop")
        /\ UNCHANGED orphans

\* an operation that returns without changing the store
Return(name, id, arg) ==
    /\ lastOp' = Op(name, id, arg)
    /\ afterCloseSaw' = "-"
    /\ UNCHANGED <<overlays, ovis, oatt, openOverlays, topmostOverlay, scrollLockCount,
                   savedScrollY, scrollY, scrollLocked, orphans>>

\* registerOverlay that starts visible although onBeforeOpen cancelled
registerOverlay_IgnoresCancel(id, lockScroll, hooks, initiallyVisible, cancel) ==
    LET shouldStartVisible == initiallyVisible
        wasScrollLocked == shouldStartVisible /\ lockScroll # "false"
        v == createBoolLazyFalse(shouldStartVisible)
    IN  /\ orphans' = IF overlays[id] # NoOverlay /\ ovis[id].timers # {}
                       THEN Append(orphans, [id |-> id, v |-> ovis[id], overlay |-> overlays[id]])
                       ELSE orphans
        /\ overlays' = [overlays EXCEPT ![id] = OverlayData(lockScroll, hooks, wasScrollLocked)]
        /\ ovis' = [ovis EXCEPT ![id] = v]
        /\ oatt' = [oatt EXCEPT ![id] = ApplyAnim(@, EffectAnim(v))]
        /\ Commit(IF shouldStartVisible
                  THEN updateOverlayVisibilityState(Store, id, wasScrollLocked, TRUE)
                  ELSE Store)
        /\ afterCloseSaw' = "-"
        /\ lastOp' = Op("register", id, IF shouldStartVisible THEN "visible" ELSE "hidden")

\* registerOverlay(overlay): cancel says whether onBeforeOpen sets event.cancel.
\* newMap.set(overlay.id, ...) replaces an entry registered under the id: its
\* visibilityState is not cleaned up, so that a pending exit timer of it
\* still runs the completion callback, which holds the replaced entry.  The
\* entry registered again passes the elementRef of the entry it replaces.
registerOverlay(id, lockScroll, hooks, initiallyVisible, cancel) ==
    LET shouldStartVisible == initiallyVisible /\ ~(hooks /\ cancel)
        wasScrollLocked == shouldStartVisible /\ lockScroll # "false"
        v == createBoolLazyFalse(shouldStartVisible)
    IN  /\ orphans' = IF overlays[id] # NoOverlay /\ ovis[id].timers # {}
                       THEN Append(orphans, [id |-> id, v |-> ovis[id], overlay |-> overlays[id]])
                       ELSE orphans
        /\ overlays' = [overlays EXCEPT ![id] = OverlayData(lockScroll, hooks, wasScrollLocked)]
        /\ ovis' = [ovis EXCEPT ![id] = v]
        /\ oatt' = [oatt EXCEPT ![id] = ApplyAnim(@, EffectAnim(v))]
        /\ Commit(IF shouldStartVisible
                  THEN updateOverlayVisibilityState(Store, id, wasScrollLocked, TRUE)
                  ELSE Store)
        /\ afterCloseSaw' = "-"
        /\ lastOp' = Op("register", id, IF shouldStartVisible THEN "visible" ELSE "hidden")

\* unregisterOverlay(id); the disposed visibilityState stays in the model
\* only while one of its timers is pending
\* unregisterOverlay that forgets overlay.visibilityState.cleanup()
unregisterOverlay_WithoutCleanup(id) ==
    IF overlays[id] = NoOverlay THEN Return("unregister", id, "unknown")
    ELSE LET v == ovis[id]
         IN  /\ overlays' = [overlays EXCEPT ![id] = NoOverlay]
             /\ ovis' = [ovis EXCEPT ![id] = IF v.timers = {} THEN NoVis ELSE v]
             /\ oatt' = [oatt EXCEPT ![id] = DetachAll(@).a]
             /\ Commit(updateOverlayVisibilityState(Store, id, overlays[id].wasScrollLocked, FALSE))
             /\ afterCloseSaw' = "-"
             /\ lastOp' = Op("unregister", id, "done")
             /\ UNCHANGED orphans

unregisterOverlay(id) ==
    IF overlays[id] = NoOverlay THEN Return("unregister", id, "unknown")
    ELSE LET v == Cleanup(ovis[id])
         IN  /\ overlays' = [overlays EXCEPT ![id] = NoOverlay]
             /\ ovis' = [ovis EXCEPT ![id] = IF v.timers = {} THEN NoVis ELSE v]
             /\ oatt' = [oatt EXCEPT ![id] = DetachAll(@).a]
             /\ Commit(updateOverlayVisibilityState(Store, id, overlays[id].wasScrollLocked, FALSE))
             /\ afterCloseSaw' = "-"
             /\ lastOp' = Op("unregister", id, "done")
             /\ UNCHANGED orphans

\* openOverlay that passes no completion callback to set
openOverlay_WithoutCallback(id, cancel) ==
    IF overlays[id] = NoOverlay THEN Return("open", id, "unknown")
    ELSE IF overlays[id].hooks /\ cancel THEN Return("open", id, "cancelled")
    ELSE Settle(id, Set(ovis[id], TRUE, NoCb), FALSE, "open")

\* openOverlay(id): cancel says whether onBeforeOpen sets event.cancel
openOverlay(id, cancel) ==
    IF overlays[id] = NoOverlay THEN Return("open", id, "unknown")
    ELSE IF overlays[id].hooks /\ cancel THEN Return("open", id, "cancelled")
    ELSE Settle(id, Set(ovis[id], TRUE, "open"), FALSE, "open")

\* closeOverlay that starts the exit although onBeforeClose cancelled
closeOverlay_IgnoresCancel(id, cancel) ==
    IF overlays[id] = NoOverlay THEN Return("close", id, "unknown")
    ELSE Settle(id, Set(ovis[id], FALSE, "close"), FALSE, "close")

\* closeOverlay(id): cancel says whether onBeforeClose sets event.cancel
closeOverlay(id, cancel) ==
    IF overlays[id] = NoOverlay THEN Return("close", id, "unknown")
    ELSE IF overlays[id].hooks /\ cancel THEN Return("close", id, "cancelled")
    ELSE Settle(id, Set(ovis[id], FALSE, "close"), FALSE, "close")

\* the animation delay of overlay id elapses: the timer callback of its
\* visibilityState runs; cancel says whether onAfterClose sets event.cancel
exitTimer(id, h, cancel) ==
    /\ ovis[id] # NoVis
    /\ h \in ovis[id].timers
    /\ IF overlays[id] = NoOverlay
       THEN /\ ovis' = [ovis EXCEPT ![id] = TimerFire(@, h).v]
            /\ lastOp' = Op("timer", id, "orphan")
            /\ afterCloseSaw' = "-"
            /\ UNCHANGED <<overlays, oatt, openOverlays, topmostOverlay, scrollLockCount,
                           savedScrollY, scrollY, scrollLocked, orphans>>
       ELSE Settle(id, TimerFire(ovis[id], h), cancel, "timer")

\* the animation delay of a replaced entry elapses: the timer callback of its
\* visibilityState runs the completion callback of the closeOverlay that
\* started the exit, with the replaced entry; cancel says whether its
\* onAfterClose sets event.cancel
orphanTimer(i, cancel) ==
    /\ i \in 1..Len(orphans)
    /\ LET o == orphans[i]
           r == TimerFire(o.v, CHOOSE h \in o.v.timers : TRUE)
           cb == IF r.ran THEN EffectFired(r.v) ELSE NoCb
           runs == cb = "close" /\ ~(o.overlay.hooks /\ cancel)
       IN  /\ orphans' = SubSeq(orphans, 1, i - 1) \o SubSeq(orphans, i + 1, Len(orphans))
           /\ oatt' = IF runs THEN [oatt EXCEPT ![o.id] = DetachAll(@).a] ELSE oatt
           /\ Commit(IF runs
                     THEN updateOverlayVisibilityState(Store, o.id, o.overlay.wasScrollLocked, FALSE)
                     ELSE Store)
           /\ afterCloseSaw' = "-"
           /\ lastOp' = Op("orphanTimer", o.id, IF runs THEN "done" ELSE "cancelled")
           /\ UNCHANGED <<overlays, ovis>>

\* onCleanup of the OverlayProvider: the scroll position is restored, every
\* entry is cleaned up and detached, overlays and openOverlays are replaced
\* by empty collections
providerOnCleanup ==
    LET v(id) == Cleanup(ovis[id])
    IN  /\ scrollLocked' = IF savedScrollY # -1 THEN "false" ELSE scrollLocked
        /\ scrollY' = IF savedScrollY # -1 THEN savedScrollY ELSE scrollY
        /\ ovis' = [id \in Ids |->
                       IF overlays[id] = NoOverlay THEN ovis[id]
                       ELSE IF v(id).timers = {} THEN NoVis ELSE v(id)]
        /\ oatt' = [id \in Ids |->
                       IF overlays[id] = NoOverlay THEN oatt[id] ELSE DetachAll(oatt[id]).a]
        /\ overlays' = [id \in Ids |-> NoOverlay]
        /\ openOverlays' = <<>>
        /\ afterCloseSaw' = "-"
        /\ lastOp' = Op("providerCleanup", "", "")
        /\ UNCHANGED <<topmostOverlay, scrollLockCount, savedScrollY, orphans>>

\* the rendering layer mounts, swaps or unmounts the element of overlay id
attachOverlay(id, el) ==
    /\ el # oatt[id].element_
    /\ oatt' = [oatt EXCEPT ![id] =
                   Attach(@, el, [i \in 1..Cardinality(Keys) |-> FALSE], 0, document).a]
    /\ UNCHANGED <<overlays, ovis, openOverlays, topmostOverlay, scrollLockCount,
                   savedScrollY, scrollY, scrollLocked, afterCloseSaw, orphans, lastOp>>

\* the user scrolls the window
userScroll(y) ==
    /\ y # scrollY
    /\ scrollY' = y
    /\ UNCHANGED <<overlays, ovis, oatt, openOverlays, topmostOverlay, scrollLockCount,
                   savedScrollY, scrollLocked, afterCloseSaw, orphans, lastOp>>

(***************************************************************************)
(* Bookkeeping of the invocations an operation made                        *)
(***************************************************************************)
CountEv(l, ev, what, n) ==
    Cardinality({i \in 1..Len(l) : l[i].ev = ev /\ l[i][what] = n})

\* disposer invocation counts after the operation that produced l (capped at 2)
Called(l) ==
    [d \in 1..MaxDisp |-> Min2(2, calls[d] + CountEv(l, "cleanup", "disp", d))]

\* handler invocation counts after the operation that produced l (capped at 2)
Invoked(l) ==
    [f \in 1..MaxFuncs |-> Min2(2, finv[f] + CountEv(l, "handler", "func", f))]

\* the traditional createBoolLazyFalse(initial, opts)
TradCreate(initial) ==
    [state |-> IF initial THEN TRUE_ ELSE FALSE_,
     timers |-> {},
     timeout |-> 0,
     onChange |-> NoCb]

\* an entry that sets neither closeOnEscape nor closeOnOutsideClick
NoBehavior == [closeOnOutsideClick |-> Undefined, closeOnEscape |-> Undefined]

\* the instances that only some of the specifications exercise
InitAux ==
    /\ trad = TradCreate(FALSE)
    /\ onChangeCalls = <<>>
    /\ tradOnChangeCalls = <<>>
    /\ behavior = [id \in Ids |-> NoBehavior]
    /\ triggerEl = [id \in Ids |-> FALSE]
    /\ closeCalls = {}

\* the OverlayProvider before any overlay is registered
InitRegistry ==
    /\ overlays = [id \in Ids |-> NoOverlay]
    /\ ovis = [id \in Ids |-> NoVis]
    /\ oatt = [id \in Ids |-> [element_ |-> None, listeners |-> <<>>]]
    /\ openOverlays = <<>>
    /\ topmostOverlay = Undefined
    /\ scrollLockCount = 0
    /\ savedScrollY = -1
    /\ scrollY \in 0..MaxScroll
    /\ scrollLocked = Undefined
    /\ afterCloseSaw = "-"
    /\ orphans = <<>>
    /\ overlayList = <<>>
    /\ registrations = <<>>

(***************************************************************************)
(* Operations on one Attachment                                            *)
(***************************************************************************)
\* createAttach(initialHandler?, once)
InitAttach ==
    /\ document \in BOOLEAN
    /\ \E initial \in BOOLEAN, once \in BOOLEAN :
         /\ att = [element_ |-> None,
                   listeners |-> IF initial
                                 THEN <<EventData("default", 1, once)>>
                                 ELSE <<>>]
         /\ nextFunc = IF initial THEN 1 ELSE 0
         /\ fonce = IF initial /\ once THEN {1} ELSE {}
    /\ log = <<>>
    /\ calls = [d \in 1..MaxDisp |-> 0]
    /\ nextDisp = 0
    /\ finv = [f \in 1..MaxFuncs |-> 0]
    /\ vis = createBoolLazyFalse(FALSE)
    /\ nextCb = 0 /\ firedCbs = {} /\ dropped = {}
    /\ InitRegistry /\ InitAux /\ scrollY = 0
    /\ lastOp = Op("create", "", "")

\* the rendering layer (or a caller) invokes attach(el)
DoAttach(el, rets) ==
    LET r == Attach(att, el, rets, nextDisp, document)
    IN  /\ r.nd <= MaxDisp
        /\ \A i \in 1..Len(rets) : rets[i] => i <= Len(att.listeners)
        /\ att' = r.a
        /\ log' = r.log
        /\ nextDisp' = r.nd
        /\ calls' = Called(r.log)
        /\ finv' = Invoked(r.log)
        /\ lastOp' = Op("attach", IF el = att.element_ THEN "same" ELSE "changed", el)
        /\ UNCHANGED <<document, fonce, nextFunc, visVars, regVars>>

\* a caller invokes onAttach(handler, key, once) with a new handler function
DoOnAttach(key, once) ==
    LET r == OnAttach(att, nextFunc + 1, key, once)
    IN  /\ nextFunc < MaxFuncs
        /\ att' = r.a
        /\ log' = r.log
        /\ calls' = Called(r.log)
        /\ nextFunc' = nextFunc + 1
        /\ fonce' = IF once THEN fonce \cup {nextFunc + 1} ELSE fonce
        /\ lastOp' = Op("onAttach", key, IF att.element_ = None THEN "unbound" ELSE "bound")
        /\ UNCHANGED <<document, nextDisp, finv, visVars, regVars>>

\* a caller invokes detach()
DoDetachAll ==
    LET r == DetachAll(att)
    IN  /\ att' = r.a
        /\ log' = r.log
        /\ calls' = Called(r.log)
        /\ lastOp' = Op("detach", "", "")
        /\ UNCHANGED <<document, nextDisp, finv, fonce, nextFunc, visVars, regVars>>

\* the strings a caller passes to detach as a key; the empty string is the
\* one string that the tests `!keyOrOptions` and `if (key)` take for absent
DetachKeys == Keys \cup {""}

\* a caller invokes detach(key) or detach({key}). A falsy key does not reach
\* removeHandler: detach("") takes the branch of detach(), and detach({key:
\* ""}) goes on to the flags, which default to clearing the listeners and
\* the element as detach() does; both return undefined.
DoDetachKey(key) ==
    LET r == IF key = ""
             THEN [a |-> DetachAll(att).a, log |-> DetachAll(att).log, existed |-> FALSE]
             ELSE RemoveHandler(att, key)
    IN  /\ att' = r.a
        /\ log' = r.log
        /\ calls' = Called(r.log)
        /\ lastOp' = Op("detachKey", key,
                        IF key = "" THEN "void" ELSE IF r.existed THEN "true" ELSE "false")
        /\ UNCHANGED <<document, nextDisp, finv, fonce, nextFunc, visVars, regVars>>

\* what the caller of detach(options) passed: eventsOnly without any of the
\* two clear flags, or another combination
FlagsPassed(clearEvents, clearDefaultEvent, eventsOnly) ==
    IF eventsOnly /\ ~clearEvents /\ ~clearDefaultEvent THEN "eventsOnly alone" ELSE ""

\* a caller invokes detach({clearEvents, clearDefaultEvent, eventsOnly})
DoDetachOptions(clearEvents, clearDefaultEvent, eventsOnly) ==
    IF DetachThrows(clearEvents, clearDefaultEvent, eventsOnly)
    THEN /\ log' = <<>>
         /\ lastOp' = Op("detachOptions",
                         FlagsPassed(clearEvents, clearDefaultEvent, eventsOnly), "throws")
         /\ UNCHANGED <<document, att, calls, nextDisp, finv, fonce, nextFunc, visVars, regVars>>
    ELSE LET r == DetachOptions(att, clearEvents, clearDefaultEvent, eventsOnly)
         IN  /\ att' = r.a
             /\ log' = r.log
             /\ calls' = Called(r.log)
             /\ lastOp' = Op("detachOptions",
                             FlagsPassed(clearEvents, clearDefaultEvent, eventsOnly), "done")
             /\ UNCHANGED <<document, nextDisp, finv, fonce, nextFunc, visVars, regVars>>

Rets == [1..Cardinality(Keys) -> BOOLEAN]

NextAttach ==
    \/ \E el \in Elements \cup {None}, rets \in Rets : DoAttach(el, rets)
    \/ \E key \in Keys, once \in BOOLEAN : DoOnAttach(key, once)
    \/ DoDetachAll
    \/ \E key \in DetachKeys : DoDetachKey(key)
    \/ \E ce \in BOOLEAN, cde \in BOOLEAN, eo \in BOOLEAN : DoDetachOptions(ce, cde, eo)

SpecAttach == InitAttach /\ [][NextAttach]_vars

(***************************************************************************)
(* Operations on one TriStateVisibility bound to the Attachment att        *)
(***************************************************************************)
\* the callback passed by the n-th call of set or toggle that passes one
Callback(n) == <<"cb1", "cb2", "cb3", "cb4", "cb5", "cb6">>[n]

\* createBoolLazyFalse(initialValue, {ref: createAttach(), ...}); the first
\* run of the effect queues the enter animation when the value is true
InitVis ==
    /\ document = TRUE
    /\ \E initialValue \in BOOLEAN :
         /\ vis = createBoolLazyFalse(initialValue)
         /\ att = ApplyAnim([element_ |-> None, listeners |-> <<>>],
                            EffectAnim(createBoolLazyFalse(initialValue)))
    /\ log = <<>>
    /\ calls = [d \in 1..MaxDisp |-> 0]
    /\ nextDisp = 0
    /\ finv = [f \in 1..MaxFuncs |-> 0]
    /\ fonce = {} /\ nextFunc = 0
    /\ nextCb = 0 /\ firedCbs = {} /\ dropped = {}
    /\ InitRegistry /\ InitAux /\ scrollY = 0
    /\ lastOp = Op("create", "", "")

\* the effects of one run of on(state) after the signal changed to r.v.state
VisEffect(r) ==
    /\ firedCbs' = IF r.ran /\ EffectFired(r.v) # NoCb
                   THEN firedCbs \cup {EffectFired(r.v)} ELSE firedCbs
    /\ att' = IF r.ran THEN ApplyAnim(att, EffectAnim(r.v)) ELSE att

\* set(value, cb) or set(value): withCb says whether a callback is passed
VisSet(value, withCb, name) ==
    LET cb == IF withCb THEN Callback(nextCb + 1) ELSE NoCb
        r == Set(vis, value, cb)
    IN  /\ withCb => nextCb < MaxCbs
        /\ ~value /\ vis.state = TRUE_ => Cardinality(vis.timers \ {vis.timeout}) < MaxTimers
        /\ vis' = r.v
        /\ nextCb' = IF withCb THEN nextCb + 1 ELSE nextCb
        /\ dropped' = IF r.ran /\ vis.state = BECOMING_FALSE /\ vis.onChange # NoCb
                      THEN dropped \cup {vis.onChange} ELSE dropped
        /\ VisEffect(r)
        /\ log' = <<>>
        /\ lastOp' = Op(name, IF value THEN "true" ELSE "false",
                              IF r.ran THEN "changed" ELSE "noop")
        /\ UNCHANGED <<document, calls, nextDisp, finv, fonce, nextFunc, regVars>>

DoSet(value, withCb) == VisSet(value, withCb, "set")

\* toggle(cb)
DoToggle(withCb) == VisSet(ToggleValue(vis), withCb, "toggle")

\* the delay of a pending timer elapses
DoTimer(h) ==
    LET r == TimerFire(vis, h)
    IN  /\ h \in vis.timers
        /\ vis' = r.v
        /\ VisEffect(r)
        /\ log' = <<>>
        /\ lastOp' = Op("timer", vis.state, IF r.ran THEN "changed" ELSE "noop")
        /\ UNCHANGED <<document, calls, nextDisp, finv, fonce, nextFunc, nextCb, dropped, regVars>>

\* cleanup()
DoCleanup ==
    /\ vis' = Cleanup(vis)
    /\ log' = <<>>
    /\ lastOp' = Op("cleanup", "", "")
    /\ UNCHANGED <<document, att, calls, nextDisp, finv, fonce, nextFunc,
                   nextCb, firedCbs, dropped, regVars>>

\* the rendering layer mounts, swaps or unmounts the bound element
DoVisAttach(el) ==
    LET r == Attach(att, el, [i \in 1..Cardinality(Keys) |-> FALSE], nextDisp, document)
    IN  /\ att' = r.a
        /\ log' = r.log
        /\ lastOp' = Op("attach", IF el = att.element_ THEN "same" ELSE "changed", el)
        /\ UNCHANGED <<document, calls, nextDisp, finv, fonce, nextFunc, visVars, regVars>>

NextVis ==
    \/ \E value \in BOOLEAN, withCb \in BOOLEAN : DoSet(value, withCb)
    \/ \E withCb \in BOOLEAN : DoToggle(withCb)
    \/ \E h \in 1..(MaxTimers + 1) : DoTimer(h)
    \/ DoCleanup
    \/ \E el \in Elements \cup {None} : DoVisAttach(el)

SpecVis == InitVis /\ [][NextVis]_vars

(***************************************************************************)
(* The traditional createBoolLazyFalse, driven by the same calls as the    *)
(* createAttach version                                                    *)
(***************************************************************************)
\* clear(): clearTimeout(timeout) if a handle is held, onChange = undefined
TradClear(t) ==
    [t EXCEPT !.timers = @ \ {t.timeout}, !.timeout = 0, !.onChange = NoCb]

\* set(v, cb) of the traditional version; ran says that the signal changed
TradSet(t, v, cb) ==
    LET willOpen == v /\ t.state # TRUE_
        willClose == ~v /\ t.state = TRUE_
        c == [TradClear(t) EXCEPT !.onChange = cb]
    IN  IF ~willOpen /\ ~willClose THEN [v |-> t, ran |-> FALSE]
        ELSE IF willOpen
             THEN [v |-> [c EXCEPT !.state = TRUE_], ran |-> TRUE]
             ELSE [v |-> [c EXCEPT !.state = BECOMING_FALSE,
                                   !.timers = @ \cup {NewHandle(c)},
                                   !.timeout = NewHandle(c)],
                   ran |-> TRUE]

\* the callback of the traditional version's setTimeout: setState(FALSE)
TradTimerFire(t, h) ==
    [v |-> [t EXCEPT !.timers = @ \ {h}, !.state = FALSE_],
     ran |-> t.state # FALSE_]

\* the callback the traditional effect fires for state s, NoCb if none
TradEffectFired(t) ==
    IF t.state # BECOMING_FALSE /\ t.onChange # NoCb THEN t.onChange ELSE NoCb

\* the first argument the traditional effect passes: s === TRUE
TradEffectArg(t) == t.state = TRUE_

\* the traditional effect clears onChange after calling it
TradEffect(t) ==
    IF TradEffectFired(t) # NoCb THEN [t EXCEPT !.onChange = NoCb] ELSE t

\* the first argument the effect of the createAttach version passes:
\* onChange(false, optionsRef)
EffectArg(v) == FALSE

\* both versions created with the same initial value
InitEquiv ==
    /\ document = TRUE
    /\ \E initialValue \in BOOLEAN :
         /\ vis = createBoolLazyFalse(initialValue)
         /\ att = ApplyAnim([element_ |-> None, listeners |-> <<>>],
                            EffectAnim(createBoolLazyFalse(initialValue)))
         /\ trad = TradCreate(initialValue)
    /\ onChangeCalls = <<>> /\ tradOnChangeCalls = <<>>
    /\ behavior = [id \in Ids |-> NoBehavior]
    /\ triggerEl = [id \in Ids |-> FALSE]
    /\ closeCalls = {}
    /\ log = <<>>
    /\ calls = [d \in 1..MaxDisp |-> 0]
    /\ nextDisp = 0
    /\ finv = [f \in 1..MaxFuncs |-> 0]
    /\ fonce = {} /\ nextFunc = 0
    /\ nextCb = 0 /\ firedCbs = {} /\ dropped = {}
    /\ InitRegistry /\ scrollY = 0
    /\ lastOp = Op("create", "", "")

\* what one run of each effect appends to the calls of the callbacks
BothEffects(r, t) ==
    /\ VisEffect(r)
    /\ onChangeCalls' =
         IF r.ran /\ EffectFired(r.v) # NoCb
         THEN Append(onChangeCalls, [cb |-> EffectFired(r.v), arg |-> EffectArg(r.v)])
         ELSE onChangeCalls
    /\ tradOnChangeCalls' =
         IF t.ran /\ TradEffectFired(t.v) # NoCb
         THEN Append(tradOnChangeCalls,
                     [cb |-> TradEffectFired(t.v), arg |-> TradEffectArg(t.v)])
         ELSE tradOnChangeCalls
    /\ trad' = IF t.ran THEN TradEffect(t.v) ELSE t.v

\* set(value, cb) or set(value) on both versions, with the same callback
BothSet(value, tradValue, withCb, name) ==
    LET cb == IF withCb THEN Callback(nextCb + 1) ELSE NoCb
        r == Set(vis, value, cb)
        t == TradSet(trad, tradValue, cb)
    IN  /\ withCb => nextCb < MaxCbs
        /\ vis' = r.v
        /\ nextCb' = IF withCb THEN nextCb + 1 ELSE nextCb
        /\ dropped' = IF r.ran /\ vis.state = BECOMING_FALSE /\ vis.onChange # NoCb
                      THEN dropped \cup {vis.onChange} ELSE dropped
        /\ BothEffects(r, t)
        /\ log' = <<>>
        /\ lastOp' = Op(name, IF value THEN "true" ELSE "false",
                              IF r.ran THEN "changed" ELSE "noop")
        /\ UNCHANGED <<document, calls, nextDisp, finv, fonce, nextFunc, storeVars, portalVars, keyVars>>

SetBoth(value, withCb) == BothSet(value, value, withCb, "set")

\* toggle(cb) on both versions: each passes the negation of its own state
ToggleBoth(withCb) == BothSet(ToggleValue(vis), trad.state # TRUE_, withCb, "toggle")

\* the delay elapses: the pending timer of each version runs
TimerBoth ==
    LET r == IF vis.timers = {} THEN [v |-> vis, ran |-> FALSE]
             ELSE TimerFire(vis, CHOOSE h \in vis.timers : TRUE)
        t == IF trad.timers = {} THEN [v |-> trad, ran |-> FALSE]
             ELSE TradTimerFire(trad, CHOOSE h \in trad.timers : TRUE)
    IN  /\ vis.timers # {} \/ trad.timers # {}
        /\ vis' = r.v
        /\ BothEffects(r, t)
        /\ log' = <<>>
        /\ lastOp' = Op("timer", vis.state, IF r.ran THEN "changed" ELSE "noop")
        /\ UNCHANGED <<document, calls, nextDisp, finv, fonce, nextFunc, nextCb, dropped,
                       storeVars, portalVars, keyVars>>

NextEquiv ==
    \/ \E value \in BOOLEAN, withCb \in BOOLEAN : SetBoth(value, withCb)
    \/ \E withCb \in BOOLEAN : ToggleBoth(withCb)
    \/ TimerBoth

SpecEquiv == InitEquiv /\ [][NextEquiv]_vars

(***************************************************************************)
(* The registry: overlays registered under distinct ids                    *)
(***************************************************************************)
Init ==
    /\ document = TRUE
    /\ att = [element_ |-> None, listeners |-> <<>>]
    /\ log = <<>>
    /\ calls = [d \in 1..MaxDisp |-> 0]
    /\ nextDisp = 0
    /\ finv = [f \in 1..MaxFuncs |-> 0]
    /\ fonce = {} /\ nextFunc = 0
    /\ vis = createBoolLazyFalse(FALSE)
    /\ nextCb = 0 /\ firedCbs = {} /\ dropped = {}
    /\ InitRegistry /\ InitAux
    /\ lastOp = Op("create", "", "")

\* the props the Overlay components of this model are written with: every
\* lockScroll value without hooks, and the two explicit ones with hooks too
\* (no hook reads lockScroll)
OverlayProps ==
    {p \in LockScrollValues \X BOOLEAN : p[1] = Undefined => ~p[2]}

\* an Overlay component mounts and registers its id, which no mounted
\* Overlay uses
Register(id) ==
    /\ overlays[id] = NoOverlay /\ ovis[id] = NoVis
    /\ \E p \in OverlayProps, initiallyVisible \in BOOLEAN, cancel \in BOOLEAN :
         registerOverlay(id, p[1], p[2], initiallyVisible, cancel)

Next ==
    \/ \E id \in Ids : Register(id) /\ UNCHANGED <<attVars, visVars, auxVars>>
    \/ \E id \in Ids : unregisterOverlay(id) /\ UNCHANGED <<attVars, visVars, auxVars>>
    \/ \E id \in Ids, cancel \in BOOLEAN :
         openOverlay(id, cancel) /\ UNCHANGED <<attVars, visVars, auxVars>>
    \/ \E id \in Ids, cancel \in BOOLEAN :
         /\ ovis[id] # NoVis =>
              Cardinality(ovis[id].timers \ {ovis[id].timeout}) < MaxTimers
         /\ closeOverlay(id, cancel)
         /\ UNCHANGED <<attVars, visVars, auxVars>>
    \/ \E id \in Ids, h \in 1..(MaxTimers + 1), cancel \in BOOLEAN :
         exitTimer(id, h, cancel) /\ UNCHANGED <<attVars, visVars, auxVars>>
    \/ \E id \in Ids, el \in OverlayElements \cup {None} :
         attachOverlay(id, el) /\ UNCHANGED <<attVars, visVars, auxVars>>
    \/ \E y \in 0..MaxScroll : userScroll(y) /\ UNCHANGED <<attVars, visVars, auxVars>>

Spec == Init /\ [][Next]_vars

(***************************************************************************)
(* The registry with ids registered again and the provider unmounted;     *)
(* the window is not scrolled and nothing is called after the unmount      *)
(***************************************************************************)
\* replaced entries whose exit timer may be pending together
MaxOrphans == 1
\* largest scrollLockCount from which an overlay is still registered or opened
\* (an entry replaced while it is open leaves its lock behind)
MaxLocks == 2

\* the id that is registered again and again
ReuseIds == {"A"}

InitReuse == Init /\ scrollY = 0

\* the OverlayProvider has not been unmounted
Mounted == lastOp.op # "providerCleanup"

\* registerOverlay with any id, registered or not
RegisterAny(id) ==
    /\ scrollLockCount < MaxLocks
    /\ ovis[id] = NoVis \/ overlays[id] # NoOverlay
    /\ (overlays[id] # NoOverlay /\ ovis[id].timers # {}) => Len(orphans) < MaxOrphans
    /\ \E lockScroll \in LockScrollValues, hooks \in BOOLEAN,
          initiallyVisible \in BOOLEAN, cancel \in BOOLEAN :
         registerOverlay(id, lockScroll, hooks, initiallyVisible, cancel)

NextReuse ==
    \/ \E id \in ReuseIds : Mounted /\ RegisterAny(id) /\ UNCHANGED <<attVars, visVars, auxVars>>
    \/ \E id \in ReuseIds : Mounted /\ unregisterOverlay(id) /\ UNCHANGED <<attVars, visVars, auxVars>>
    \/ \E id \in ReuseIds, cancel \in BOOLEAN :
         /\ Mounted /\ scrollLockCount < MaxLocks
         /\ openOverlay(id, cancel)
         /\ UNCHANGED <<attVars, visVars, auxVars>>
    \/ \E id \in ReuseIds, cancel \in BOOLEAN :
         /\ Mounted
         /\ ovis[id] # NoVis =>
              Cardinality(ovis[id].timers \ {ovis[id].timeout}) < MaxTimers
         /\ closeOverlay(id, cancel)
         /\ UNCHANGED <<attVars, visVars, auxVars>>
    \/ \E id \in ReuseIds, h \in 1..(MaxTimers + 1), cancel \in BOOLEAN :
         Mounted /\ exitTimer(id, h, cancel) /\ UNCHANGED <<attVars, visVars, auxVars>>
    \/ \E i \in 1..MaxOrphans, cancel \in BOOLEAN :
         Mounted /\ orphanTimer(i, cancel) /\ UNCHANGED <<attVars, visVars, auxVars>>
    \/ \E id \in ReuseIds, el \in OverlayElements \cup {None} :
         Mounted /\ attachOverlay(id, el) /\ UNCHANGED <<attVars, visVars, auxVars>>
    \/ Mounted /\ providerOnCleanup /\ UNCHANGED <<attVars, visVars, auxVars>>

SpecReuse == InitReuse /\ [][NextReuse]_vars

(***************************************************************************)
(* The overlays Map in insertion order and getOverlaysByPortal             *)
(***************************************************************************)
\* registerOverlay calls of one run
MaxRegs == 3

\* the values of config.portalTarget and the targets asked for
PortalTargets == {"p1", "p2"}

\* Map.set that moves an existing key to the end
MapSet_MovesToEnd(list, entry) ==
    Append(SelectSeq(list, LAMBDA o : o.id # entry.id), entry)

\* Map.set: an existing key keeps its position and gets the new value, a new
\* key is appended
MapSet(list, entry) ==
    IF \E i \in 1..Len(list) : list[i].id = entry.id
    THEN [i \in 1..Len(list) |-> IF list[i].id = entry.id THEN entry ELSE list[i]]
    ELSE Append(list, entry)

\* Map.delete
MapDelete(list, id) == SelectSeq(list, LAMBDA o : o.id # id)

\* getOverlaysByPortal(portalTarget): the values of the Map, filtered by
\* portalTarget and mapped to contentComponent
getOverlaysByPortal(portalTarget) ==
    LET m == SelectSeq(overlayList, LAMBDA o : o.portalTarget = portalTarget)
    IN  [i \in 1..Len(m) |-> m[i].contentComponent]

\* the registerOverlay calls made so far
RegisterCalls == Len(SelectSeq(registrations, LAMBDA r : r.op = "register"))

\* registerOverlay(id, config, ContentComponent) of an overlay without hooks
\* that does not lock the scroll: the n-th call passes the content renderer n
registerPortal(id, portalTarget) ==
    LET entry == [id |-> id, portalTarget |-> portalTarget,
                  contentComponent |-> RegisterCalls + 1]
    IN  /\ RegisterCalls < MaxRegs
        /\ \E initiallyVisible \in BOOLEAN :
             registerOverlay(id, "false", FALSE, initiallyVisible, FALSE)
        /\ overlayList' = MapSet(overlayList, entry)
        /\ registrations' = Append(registrations, [op |-> "register"] @@ entry)

\* unregisterOverlay(id)
unregisterPortal(id) ==
    /\ unregisterOverlay(id)
    /\ overlayList' = MapDelete(overlayList, id)
    /\ registrations' =
         IF overlays[id] = NoOverlay THEN registrations
         ELSE Append(registrations, [op |-> "unregister", id |-> id,
                                     portalTarget |-> "", contentComponent |-> 0])

\* onCleanup of the OverlayProvider: the Map is replaced by an empty one
cleanupPortal ==
    /\ providerOnCleanup
    /\ overlayList' = <<>>
    /\ registrations' = Append(registrations, [op |-> "providerCleanup", id |-> "",
                                               portalTarget |-> "", contentComponent |-> 0])

InitPortal == Init /\ scrollY = 0

NextPortal ==
    \/ \E id \in Ids, portalTarget \in PortalTargets :
         Mounted /\ registerPortal(id, portalTarget) /\ UNCHANGED <<attVars, visVars, tradVars, keyVars>>
    \/ \E id \in Ids : Mounted /\ unregisterPortal(id) /\ UNCHANGED <<attVars, visVars, tradVars, keyVars>>
    \/ Mounted /\ cleanupPortal /\ UNCHANGED <<attVars, visVars, tradVars, keyVars>>

SpecPortal == InitPortal /\ [][NextPortal]_vars

(***************************************************************************)
(* Overlays mounted through useOverlay: one Escape key or click event is   *)
(* delivered to the document listeners of every mounted overlay            *)
(***************************************************************************)
\* the values of closeOnEscape and closeOnOutsideClick
FlagValues == {"true", "false", Undefined}

\* the configurations the overlays are mounted with
Behaviors ==
    {b \in [closeOnOutsideClick : FlagValues, closeOnEscape : FlagValues] :
        \/ b = NoBehavior
        \/ b.closeOnOutsideClick = "false" /\ b.closeOnEscape = "true"
        \/ b.closeOnOutsideClick = "true" /\ b.closeOnEscape = "false"}

\* the keys of the keydown events
KeyValues == {"Escape", "Enter"}

\* where a click lands: inside the element of an overlay, inside the
\* trigger of an overlay, or elsewhere on the page
ClickTargets ==
    [part : {"overlay", "trigger"}, id : Ids] \cup {[part |-> "page", id |-> ""]}

\* getBehaviorProps(id): the flags of the entry, true when not set or when
\* there is no entry
getBehaviorProps(id) ==
    IF overlays[id] = NoOverlay
    THEN [closeOnOutsideClick |-> TRUE, closeOnEscape |-> TRUE]
    ELSE [closeOnOutsideClick |-> behavior[id].closeOnOutsideClick # "false",
          closeOnEscape |-> behavior[id].closeOnEscape # "false"]

shouldCloseOnOutsideClick(id) == getBehaviorProps(id).closeOnOutsideClick
shouldCloseOnEscape(id) == getBehaviorProps(id).closeOnEscape

\* handleEscapeKey without the test for the topmost overlay
handleEscapeKey_AnyOverlay(id, key) ==
    /\ key = "Escape"
    /\ shouldCloseOnEscape(id)

\* handleEscapeKey of overlay id: whether it calls closeOverlay
handleEscapeKey(id, key) ==
    /\ key = "Escape"
    /\ isTopmost(id)
    /\ shouldCloseOnEscape(id)

\* handleClickOutside of overlay id: whether it calls closeOverlay
handleClickOutside(id, target) ==
    /\ isTopmost(id)
    /\ shouldCloseOnOutsideClick(id)
    /\ attachment(oatt[id]) # None
    /\ triggerEl[id]
    /\ target # [part |-> "overlay", id |-> id]
    /\ target # [part |-> "trigger", id |-> id]

\* the listeners of the ids in closers call closeOverlay one after the
\* other; cancel says whether onBeforeClose sets event.cancel. closeOverlay
\* only starts the exit of its own entry and leaves the store alone, so the
\* calls do not influence each other.
CloseByListeners(closers, cancel, name, what) ==
    LET r(id) == Set(ovis[id], FALSE, "close")
        starts(id) == /\ id \in closers /\ overlays[id] # NoOverlay
                      /\ ~(overlays[id].hooks /\ cancel)
                      /\ r(id).ran
    IN  /\ closeCalls' = closers
        /\ ovis' = [id \in Ids |-> IF starts(id) THEN r(id).v ELSE ovis[id]]
        /\ oatt' = [id \in Ids |-> IF starts(id)
                                   THEN ApplyAnim(oatt[id], EffectAnim(r(id).v))
                                   ELSE oatt[id]]
        /\ afterCloseSaw' = "-"
        /\ lastOp' = Op(name, what, IF closers = {} THEN "ignored" ELSE "closeOverlay")
        /\ UNCHANGED <<overlays, openOverlays, topmostOverlay, scrollLockCount,
                       savedScrollY, scrollY, scrollLocked, orphans, behavior, triggerEl>>

\* a keydown event reaches the keydown listener of every overlay
keydown(key, cancel) ==
    /\ \A id \in Ids : ovis[id] # NoVis =>
         Cardinality(ovis[id].timers \ {ovis[id].timeout}) < MaxTimers
    /\ CloseByListeners({id \in Ids : handleEscapeKey(id, key)}, cancel, "keydown", key)

\* a click (or focusin) event reaches the click listener of every overlay
click(target, cancel) ==
    /\ \A id \in Ids : ovis[id] # NoVis =>
         Cardinality(ovis[id].timers \ {ovis[id].timeout}) < MaxTimers
    /\ CloseByListeners({id \in Ids : handleClickOutside(id, target)}, cancel,
                        "click", target.part)

\* an Overlay of useOverlay mounts and registers; it does not lock the scroll
mountOverlay(id, b) ==
    /\ overlays[id] = NoOverlay /\ ovis[id] = NoVis
    /\ \E hooks \in BOOLEAN, initiallyVisible \in BOOLEAN :
         registerOverlay(id, "false", hooks, initiallyVisible, FALSE)
    /\ behavior' = [behavior EXCEPT ![id] = b]
    /\ closeCalls' = {}
    /\ UNCHANGED triggerEl

\* setTrigger(el): the trigger of overlay id is rendered
setTrigger(id) ==
    /\ ~triggerEl[id]
    /\ triggerEl' = [triggerEl EXCEPT ![id] = TRUE]
    /\ UNCHANGED <<storeVars, behavior, closeCalls, lastOp>>

\* an operation of the registry that is not started by a key or a click
Unprompted(A) == A /\ closeCalls' = {} /\ UNCHANGED <<behavior, triggerEl>>

InitKeys == Init /\ scrollY = 0

NextKeys ==
    \/ \E id \in Ids, b \in Behaviors :
         /\ mountOverlay(id, b)
         /\ UNCHANGED <<attVars, visVars, portalVars, tradVars>>
    \/ \E id \in Ids :
         /\ Unprompted(openOverlay(id, FALSE))
         /\ UNCHANGED <<attVars, visVars, portalVars, tradVars>>
    \/ \E id \in Ids, h \in 1..(MaxTimers + 1) :
         /\ Unprompted(exitTimer(id, h, FALSE))
         /\ UNCHANGED <<attVars, visVars, portalVars, tradVars>>
    \/ \E id \in Ids, el \in OverlayElements \cup {None} :
         /\ attachOverlay(id, el)
         /\ UNCHANGED <<attVars, visVars, auxVars>>
    \/ \E id \in Ids :
         /\ setTrigger(id)
         /\ UNCHANGED <<attVars, visVars, portalVars, tradVars>>
    \/ \E key \in KeyValues, cancel \in BOOLEAN :
         /\ keydown(key, cancel)
         /\ UNCHANGED <<attVars, visVars, portalVars, tradVars>>
    \/ \E target \in ClickTargets, cancel \in BOOLEAN :
         /\ click(target, cancel)
         /\ UNCHANGED <<attVars, visVars, portalVars, tradVars>>

SpecKeys == InitKeys /\ [][NextKeys]_vars

(***************************************************************************)
(* Properties of the registry (checked under Spec)                         *)
(***************************************************************************)
Registered(id) == overlays[id] # NoOverlay

\* the entry of id has no hook that could cancel
NoHooks(id) == Registered(id) /\ ~overlays[id].hooks

\* the steps of the registry operations on id
OpenStep(id) == \E cancel \in BOOLEAN : openOverlay(id, cancel)
CloseStep(id) == \E cancel \in BOOLEAN : closeOverlay(id, cancel)
TimerStep(id) == \E h \in 1..(MaxTimers + 1), cancel \in BOOLEAN : exitTimer(id, h, cancel)

\* the elementRef of id is fully detached
Detached(id) == oatt[id] = [element_ |-> None, listeners |-> <<>>]

\* C1: after openOverlay(A), openOverlay(B), openOverlay(A) without a
\* cancelling hook, A is topmost and B is not; and when the exit delay of a
\* following closeOverlay(A) has elapsed, B is topmost.
C1_ReopenedIsTopmost ==
    \A a \in Ids, b \in Ids :
        a # b =>
            /\ (/\ lastOp.op = "open" /\ lastOp.id = a
                /\ lastOp.arg \in {"done", "noop"}
                /\ isOpen(a) /\ isOpen(b))
               => (isTopmost(a) /\ ~isTopmost(b))
            /\ (lastOp = Op("timer", a, "done") /\ isOpen(b)) => isTopmost(b)

\* C2: for an overlay with lockScroll = true and no hooks: openOverlay from
\* the closed state leaves it open and the count one higher (1 when no other
\* overlay is open) when it returns; closeOverlay leaves it open and the
\* count unchanged, and so it stays while the exit is pending; the expiry of
\* the timer leaves it closed and the count one lower (0 when it was the
\* only open overlay).
C2_OpenNowCloseAfterDelay ==
    /\ [][\A id \in Ids :
            (NoHooks(id) /\ overlays[id].lockScroll = "true")
            => /\ (OpenStep(id) /\ ~isOpen(id))
                  => /\ isOpen(id)'
                     /\ scrollLockCount' = scrollLockCount + 1
                     /\ openOverlays = <<>> => scrollLockCount' = 1
               /\ (CloseStep(id) /\ ovis[id].state = TRUE_)
                  => /\ isOpen(id)'
                     /\ scrollLockCount' = scrollLockCount
                     /\ ovis'[id].state = BECOMING_FALSE
                     /\ ovis'[id].timers # {}
               /\ (TimerStep(id) /\ ovis[id].state = BECOMING_FALSE)
                  => /\ ~isOpen(id)'
                     /\ scrollLockCount' = scrollLockCount - 1
                     /\ openOverlays = <<id>> => scrollLockCount' = 0]_vars
    /\ [](\A id \in Ids :
            (/\ NoHooks(id) /\ overlays[id].lockScroll = "true"
             /\ ovis[id].state = BECOMING_FALSE)
            => /\ isOpen(id)
               /\ scrollLockCount >= 1
               /\ openOverlays = <<id>> => scrollLockCount = 1)

\* the exit delay of the only open overlay has elapsed: closed, count 0
C2_Witness ==
    \E id \in Ids :
        /\ lastOp = Op("timer", id, "done")
        /\ NoHooks(id) /\ overlays[id].lockScroll = "true"
        /\ ovis[id].state = FALSE_
        /\ ~isOpen(id)
        /\ scrollLockCount = 0
        /\ scrollLocked = "false"

\* every registered overlay is closed and no exit is pending
AllClosed ==
    \A id \in Ids : Registered(id) => ovis[id].state = FALSE_

\* C3: when overlays without cancelling hooks have been opened and all of
\* them closed again, in any order of the closes and of their timers, the
\* count is 0 and the document is unlocked; the unlocking step restores the
\* offset that was captured when the count left 0, which is kept while the
\* count is positive.
C3_AllClosedUnlocks ==
    /\ []((AllClosed /\ \A id \in Ids : Registered(id) => NoHooks(id))
            => /\ scrollLockCount = 0
               /\ savedScrollY = -1
               /\ scrollLocked # "true")
    /\ [][/\ (scrollLockCount = 0 /\ scrollLockCount' > 0)
             => (savedScrollY' = scrollY /\ scrollLocked' = "true")
          /\ (scrollLockCount > 0 /\ scrollLockCount' > 0)
             => savedScrollY' = savedScrollY
          /\ (scrollLockCount > 0 /\ scrollLockCount' = 0)
             => /\ scrollY' = savedScrollY
                /\ scrollLocked' = "false"]_vars

\* both overlays were locking, were open, and have finished closing
C3_Witness ==
    /\ \A id \in Ids :
          /\ NoHooks(id) /\ overlays[id].lockScroll = "true"
          /\ ovis[id].state = FALSE_
          /\ ovis[id].timeout # 0
          /\ ovis[id].onChange = "close"
    /\ lastOp.op = "timer" /\ lastOp.arg = "done"
    /\ scrollLockCount = 0
    /\ scrollLocked = "false"

\* C4: when the exit delay elapses, the closing bookkeeping is applied
\* before onAfterClose runs, the elementRef is then fully detached, and the
\* overlay is no longer open whether or not onAfterClose cancels.
C4_AfterCloseCannotUndo ==
    [][\A id \in Ids :
          (TimerStep(id) /\ Registered(id) /\ ovis[id].state = BECOMING_FALSE)
          => /\ ~isOpen(id)'
             /\ Detached(id)'
             /\ afterCloseSaw' # "open"]_vars

\* the store fields and the document state of the scroll lock
StoreAndDocument ==
    <<openOverlays, topmostOverlay, scrollLockCount, savedScrollY, scrollY, scrollLocked>>

\* the last id of s, Undefined if s is empty
LastOf(s) == IF s = <<>> THEN Undefined ELSE s[Len(s)]

\* C15: openOverlay whose onBeforeOpen sets cancel, and closeOverlay whose
\* onBeforeClose sets cancel, change nothing: the entries, their visibility
\* states with the pending timer and the stored callback, their Attachments,
\* openOverlays, topmostOverlay, scrollLockCount and the document.
C15_CancelledBeforeHookNoChange ==
    [][\A id \in Ids :
          (/\ Registered(id) /\ overlays[id].hooks
           /\ openOverlay(id, TRUE) \/ closeOverlay(id, TRUE))
          => /\ UNCHANGED <<overlays, ovis, oatt>>
             /\ UNCHANGED StoreAndDocument]_vars

\* openOverlay was cancelled by onBeforeOpen while the exit was pending
C15_Witness ==
    \E id \in Ids :
        /\ lastOp = Op("open", id, "cancelled")
        /\ overlays[id].hooks
        /\ ovis[id].state = BECOMING_FALSE
        /\ ovis[id].timers # {}
        /\ ovis[id].onChange = "close"
        /\ isOpen(id)

\* C16: unregisterOverlay of a registered id, whatever its visibility state,
\* removes the entry, leaves no timer of it pending, leaves its Attachment
\* without element and listeners, removes the id from openOverlays, makes
\* the last remaining open id topmost, and decrements scrollLockCount exactly
\* when the id was open and its entry held the lock; other entries are
\* untouched.  No timer is ever pending for an id that is not registered.
C16_UnregisterCleansUp ==
    /\ [][\A id \in Ids :
             (Registered(id) /\ unregisterOverlay(id))
             => /\ ~Registered(id)'
                /\ ovis'[id] = NoVis
                /\ Detached(id)'
                /\ openOverlays' = Delete(openOverlays, id)
                /\ topmostOverlay' = LastOf(openOverlays')
                /\ scrollLockCount' =
                      IF isOpen(id) /\ overlays[id].wasScrollLocked
                      THEN scrollLockCount - 1 ELSE scrollLockCount
                /\ \A other \in Ids \ {id} :
                      /\ overlays'[other] = overlays[other]
                      /\ ovis'[other] = ovis[other]
                      /\ oatt'[other] = oatt[other]]_vars
    /\ [](\A id \in Ids : ~Registered(id) => ovis[id] = NoVis)

\* a locking overlay was unregistered while another one stays open and
\* keeps the document locked
C16_Witness ==
    \E id \in Ids, other \in Ids :
        /\ lastOp = Op("unregister", id, "done")
        /\ ~Registered(id) /\ Detached(id)
        /\ openOverlays = <<other>> /\ topmostOverlay = other
        /\ overlays[other].wasScrollLocked
        /\ scrollLockCount = 1
        /\ scrollLocked = "true"

\* C18: registerOverlay of an id that is not registered: the entry starts
\* in TRUE exactly when initiallyVisible is set and onBeforeOpen (if any) did
\* not cancel, else in FALSE and outside openOverlays; an entry that starts
\* visible is, in the same step, appended to openOverlays and made topmost,
\* wasScrollLocked is lockScroll ?? true, and scrollLockCount is incremented
\* exactly when that is true.
C18_RegisterFoldsIn ==
    [][\A id \in Ids, initiallyVisible \in BOOLEAN, cancel \in BOOLEAN :
          (/\ ~Registered(id) /\ Registered(id)'
           /\ registerOverlay(id, overlays'[id].lockScroll, overlays'[id].hooks,
                              initiallyVisible, cancel))
          => LET starts == initiallyVisible /\ ~(overlays'[id].hooks /\ cancel)
                 lock == overlays'[id].lockScroll # "false"
             IN  /\ lastOp'.op = "register"
                 /\ ovis'[id].state = IF starts THEN TRUE_ ELSE FALSE_
                 /\ ovis'[id].timers = {}
                 /\ ~starts
                    => /\ UNCHANGED <<openOverlays, topmostOverlay, scrollLockCount>>
                       /\ ~isOpen(id)'
                       /\ ~overlays'[id].wasScrollLocked
                 /\ starts
                    => /\ openOverlays' = Append(openOverlays, id)
                       /\ topmostOverlay' = id
                       /\ overlays'[id].wasScrollLocked = lock
                       /\ scrollLockCount' =
                             IF lock THEN scrollLockCount + 1 ELSE scrollLockCount]_vars

\* a second overlay registered visible with lockScroll unspecified
C18_Witness ==
    \E id \in Ids :
        /\ lastOp = Op("register", id, "visible")
        /\ overlays[id].lockScroll = Undefined
        /\ overlays[id].wasScrollLocked
        /\ Len(openOverlays) = 2 /\ topmostOverlay = id
        /\ scrollLockCount = 2

\* C21: the scroll-lock effect follows the count. While the count is 0 no
\* offset is held and the document is not marked locked; while it is
\* positive an offset is held and the document is marked locked. The step
\* that takes the count from 0 to a positive value captures the offset the
\* window has at that moment, every step that leaves the count positive
\* (further opens and closes, the user scrolling) keeps the held offset,
\* and the step that takes the count back to 0 scrolls the window to the
\* held offset and unmarks the document.
C21_EffectFollowsCount ==
    /\ [](/\ scrollLockCount = 0 => (savedScrollY = -1 /\ scrollLocked # "true")
          /\ scrollLockCount > 0 => (savedScrollY \in 0..MaxScroll /\ scrollLocked = "true"))
    /\ [][/\ (savedScrollY = -1 /\ scrollLockCount' > 0)
             => (savedScrollY' = scrollY /\ scrollY' = scrollY)
          /\ (savedScrollY # -1 /\ scrollLockCount' > 0)
             => (savedScrollY' = savedScrollY /\ scrollLocked' = scrollLocked)
          /\ (savedScrollY # -1 /\ scrollLockCount' = 0)
             => (scrollY' = savedScrollY /\ scrollLocked' = "false")]_vars

\* two locking overlays are open, the second one opened after the user
\* had scrolled away from the offset captured by the first
C21_Witness ==
    /\ scrollLockCount = 2
    /\ scrollLocked = "true"
    /\ savedScrollY # scrollY
    /\ lastOp.op \in {"open", "register"}

\* the open ids whose entry holds the scroll lock
LockHolders ==
    {id \in Ids : isOpen(id) /\ Registered(id) /\ overlays[id].wasScrollLocked}

\* C32: with distinct ids registered, after every registerOverlay,
\* unregisterOverlay, openOverlay, closeOverlay, cancelling hook and exit
\* timer, scrollLockCount is the number of ids in openOverlays whose entry
\* has wasScrollLocked true.
C32_CountIsLockHolders ==
    scrollLockCount = Cardinality(LockHolders)

\* two overlays are open, one of them holds the lock, and the other one was
\* opened, closed and opened again
C32_Witness ==
    /\ Cardinality(LockHolders) = 1
    /\ Len(openOverlays) = 2
    /\ \E id \in Ids \ LockHolders : ovis[id].timeout # 0 /\ ovis[id].state = TRUE_

\* C33: for every registered id, after every registry operation and timer,
\* isOpen(id) is true exactly when the entry's visibility state is True or
\* BecomingFalse (lazyBool() is true); an entry that has landed in False is
\* not in openOverlays.
C33_OpenIffLazyBool ==
    \A id \in Ids : Registered(id) => (isOpen(id) <=> lazyBool(ovis[id]))

\* C34: closeOverlay(id) that starts the exit leaves id open, the count and
\* the element alone and invokes no hook; openOverlay(id) that is not
\* cancelled by onBeforeOpen and is issued while the exit is pending puts the
\* state back to True with no timer pending, so that the callback of the
\* close can no longer run: id is open before and after, the count and the
\* element are unchanged, onAfterClose is not invoked and id is topmost.
\* onAfterClose is only ever invoked by a timer that was pending. (The steps
\* of the operations are those that change a visibility state.)
C34_ReopenCancelsClose ==
    [][/\ \A id \in Ids :
            /\ (/\ lastOp'.op = "close" /\ lastOp'.id = id /\ lastOp'.arg = "pending"
                /\ ovis' # ovis)
               => /\ isOpen(id) => isOpen(id)'
                  /\ ovis'[id].state = BECOMING_FALSE
                  /\ scrollLockCount' = scrollLockCount
                  /\ oatt'[id].element_ = oatt[id].element_
                  /\ afterCloseSaw' = "-"
            /\ (/\ lastOp'.op = "open" /\ lastOp'.id = id /\ lastOp'.arg # "cancelled"
                /\ Registered(id) /\ ovis[id].state = BECOMING_FALSE /\ ovis' # ovis)
               => /\ ovis'[id].state = TRUE_
                  /\ ovis'[id].timers = {}
                  /\ isOpen(id) /\ isOpen(id)'
                  /\ scrollLockCount' = scrollLockCount
                  /\ oatt'[id].element_ = oatt[id].element_
                  /\ afterCloseSaw' = "-"
                  /\ topmostOverlay' = id
       /\ (afterCloseSaw' # "-" /\ ovis' # ovis)
          => /\ lastOp'.op = "timer"
             /\ Registered(lastOp'.id)
             /\ ovis[lastOp'.id].state = BECOMING_FALSE
             /\ ovis[lastOp'.id].timers # {}]_vars

\* a locking overlay with hooks and a bound element was closed, the other
\* overlay was opened, and the first was opened again before its delay
\* elapsed
C34_Witness ==
    \E id \in Ids :
        /\ lastOp = Op("open", id, "done")
        /\ ovis[id].state = TRUE_ /\ ovis[id].timeout # 0 /\ ovis[id].timers = {}
        /\ overlays[id].hooks /\ overlays[id].wasScrollLocked
        /\ oatt[id].element_ # None
        /\ Len(openOverlays) = 2 /\ topmostOverlay = id

\* C38: onAfterClose is invoked only by the exit timer of a closeOverlay,
\* on an entry that is closing, and the timer of a closing entry with the
\* hook always invokes it; while an entry is closing exactly one timer is
\* pending and none is left when it has run, so the hook runs once for a
\* close that completes. A closeOverlay cancelled by onBeforeClose starts
\* no timer, openOverlay during the exit and unregisterOverlay remove the
\* pending timer without invoking the hook.
C38_AfterCloseOncePerCompletedClose ==
    /\ [](\A id \in Ids :
            /\ ~Registered(id) => ovis[id] = NoVis
            /\ Registered(id) =>
                 IF ovis[id].state = BECOMING_FALSE
                 THEN Cardinality(ovis[id].timers) = 1 /\ ovis[id].onChange = "close"
                 ELSE ovis[id].timers = {})
    /\ [][/\ (afterCloseSaw' # "-" /\ ovis' # ovis)
             => /\ lastOp'.op = "timer"
                /\ Registered(lastOp'.id) /\ overlays[lastOp'.id].hooks
                /\ ovis[lastOp'.id].state = BECOMING_FALSE
                /\ ovis'[lastOp'.id] # NoVis /\ ovis'[lastOp'.id].state = FALSE_
          /\ \A id \in Ids :
               /\ (/\ Registered(id) /\ overlays[id].hooks
                   /\ ovis[id].state = BECOMING_FALSE
                   /\ ovis'[id] # NoVis /\ ovis'[id].state = FALSE_)
                  => afterCloseSaw' # "-"
               /\ (lastOp'.op = "close" /\ lastOp'.id = id /\ lastOp'.arg = "cancelled")
                  => ovis' = ovis
               /\ (/\ Registered(id) /\ ovis[id].state = BECOMING_FALSE
                   /\ ovis'[id] # ovis[id] /\ ovis'[id] # NoVis /\ ovis'[id].state # FALSE_)
                  => /\ lastOp'.op = "open"
                     /\ ovis'[id].state = TRUE_
                     /\ afterCloseSaw' = "-"
               /\ (Registered(id) /\ ~Registered(id)')
                  => /\ lastOp'.op = "unregister"
                     /\ afterCloseSaw' = "-"]_vars

\* the exit timer of an overlay with hooks has run and invoked onAfterClose,
\* and no timer is left
C38_Witness ==
    \E id \in Ids :
        /\ lastOp = Op("timer", id, "done")
        /\ overlays[id].hooks
        /\ afterCloseSaw # "-"
        /\ ovis[id].state = FALSE_ /\ ovis[id].timers = {}
        /\ ~isOpen(id)

(***************************************************************************)
(* Properties of the registry with ids registered again and the provider  *)
(* unmounted (checked under SpecReuse)                                     *)
(***************************************************************************)
\* C12: in every state between registry operations and timer callbacks,
\* registrations under a registered id included, scrollLockCount is not
\* negative: a decrement that would take it below zero leaves it at zero.
C12_CountNeverNegative ==
    scrollLockCount >= 0

\* an open entry that holds the lock finished closing while the count was 0
\* all along (the document was never locked): the decrement was clamped
C12_Witness ==
    /\ \E id \in ReuseIds :
          /\ lastOp = Op("timer", id, "done")
          /\ overlays[id].wasScrollLocked
          /\ ~isOpen(id)
    /\ scrollLocked = Undefined
    /\ scrollLockCount = 0

\* C17: openOverlay, closeOverlay and unregisterOverlay with an id that is
\* not registered leave overlays, openOverlays, topmostOverlay and
\* scrollLockCount (and everything else of the registry) unchanged, and
\* isOpen and isTopmost are false for every id that is not registered.
C17_UnknownIdNoOp ==
    /\ [][\A id \in Ids :
             (~Registered(id) /\ (OpenStep(id) \/ CloseStep(id) \/ unregisterOverlay(id)))
             => /\ UNCHANGED <<overlays, ovis, oatt>>
                /\ UNCHANGED StoreAndDocument]_vars
    /\ [](\A id \in Ids : ~Registered(id) => (~isOpen(id) /\ ~isTopmost(id)))

\* C13: topmostOverlay is the last element of openOverlays in insertion
\* order, and undefined exactly when openOverlays is empty.
C13_TopmostIsLast ==
    topmostOverlay = IF openOverlays = <<>> THEN Undefined
                     ELSE openOverlays[Len(openOverlays)]

\* no replaced entry has an exit timer pending, the open ids are those whose
\* entry is visible, and the count is the number of open lock holders
NothingLeaked ==
    /\ orphans = <<>>
    /\ \A id \in Ids : isOpen(id) <=> (Registered(id) /\ lazyBool(ovis[id]))
    /\ scrollLockCount = Cardinality(LockHolders)

\* C37: registerOverlay with an id that is still registered, in a state
\* where nothing has leaked, replaces the entry and leaves nothing of the old
\* one behind: no exit timer of the old entry is pending, id is open exactly
\* if the new entry is visible, and scrollLockCount is the number of open
\* entries that hold the lock.
C37_ReplaceLeaksNothing ==
    [][\A id \in ReuseIds :
          (Mounted /\ Registered(id) /\ NothingLeaked /\ RegisterAny(id))
          => NothingLeaked']_vars

(***************************************************************************)
(* The TriStateVisibility with timers that expire: a callback passed to   *)
(* setTimeout runs once its delay has elapsed unless clearTimeout removed  *)
(* it before                                                               *)
(***************************************************************************)
SpecVisFair == SpecVis /\ WF_vars(\E h \in 1..(MaxTimers + 1) : DoTimer(h))

\* C35 as stated: whenever the state is BecomingFalse a delayed transition
\* is pending, and with timers that expire every BecomingFalse state is
\* followed by False or True, whatever set, toggle and cleanup calls are made
C35_NeverStaysBecomingFalse ==
    /\ [](vis.state = BECOMING_FALSE => vis.timers # {})
    /\ (vis.state = BECOMING_FALSE) ~> (vis.state # BECOMING_FALSE)

\* the instance was released by cleanup() and no delayed transition is pending
Released == vis.disposed /\ vis.timers = {}

\* C35: whenever the state is BecomingFalse, either exactly the delayed
\* transition of the last set(false) is pending or cleanup() has cancelled
\* it; with timers that expire every BecomingFalse state is followed by
\* False or True or by a cleanup() that leaves the instance in BecomingFalse
\* with nothing pending.
C35_LeavesBecomingFalseUnlessReleased ==
    /\ [](vis.state = BECOMING_FALSE => (vis.timers = {vis.timeout} \/ Released))
    /\ (vis.state = BECOMING_FALSE) ~> (vis.state # BECOMING_FALSE \/ Released)

\* the delay of an exit elapsed on an instance that was not cleaned up
C35_Witness ==
    /\ lastOp = Op("timer", BECOMING_FALSE, "changed")
    /\ vis.state = FALSE_
    /\ ~vis.disposed

(***************************************************************************)
(* Equivalence of the two versions (checked under SpecEquiv)               *)
(***************************************************************************)
\* C36: created with the same initial value and driven by the same set,
\* toggle and timer events, the createAttach version and the traditional
\* version are in the same state after every event and have invoked the
\* same completion callbacks, in the same order, at the same events, with
\* the same argument: true when settling in True, false when settling in
\* False.
C36_VersionsEquivalent ==
    /\ vis.state = trad.state
    /\ vis.timers = {} <=> trad.timers = {}
    /\ onChangeCalls = tradOnChangeCalls

(***************************************************************************)
(* Properties of the TriStateVisibility (checked under SpecVis)            *)
(***************************************************************************)
\* C5: set(true) issued while an exit is pending keeps lazyBool() true and
\* cancels the timer, so that no timer is pending in TRUE and lazyBool()
\* only becomes false when a timer expires in BECOMING_FALSE; the callback
\* of the superseded exit is never invoked.
C5_ReopenCancelsExit ==
    /\ [](vis.state = TRUE_ => vis.timers = {})
    /\ [](dropped \cap firedCbs = {})
    /\ [][/\ (lastOp'.op \in {"set", "toggle"} /\ lastOp'.arg = "changed"
              /\ vis.state = BECOMING_FALSE)
             => (lazyBool(vis') /\ vis'.timers = {})
          /\ (lazyBool(vis) /\ ~lazyBool(vis'))
             => (lastOp'.op = "timer" /\ vis.state = BECOMING_FALSE)]_vars

\* set(true), set(false, cb), set(true) before the timer fired
C5_Witness ==
    /\ lastOp = Op("set", "true", "changed")
    /\ vis.state = TRUE_
    /\ dropped # {}
    /\ firedCbs # {}

\* C14: whatever sequence of set, toggle, cleanup and timer expiries ran, at
\* most one delayed transition (timer) of the instance is pending, and one is
\* pending only while the state is BECOMING_FALSE.
C14_OneTimerOnlyWhileLeaving ==
    /\ Cardinality(vis.timers) <= 1
    /\ vis.timers # {} => vis.state = BECOMING_FALSE

\* a second exit is pending after an earlier exit was superseded by set(true)
C14_Witness ==
    /\ vis.state = BECOMING_FALSE
    /\ Cardinality(vis.timers) = 1
    /\ dropped # {}
    /\ lastOp.arg = "changed"

\* C22: the callback passed to set (or toggle) fires only when the state is
\* not transitional. On an instance that was not released, set(true, cb)
\* from a state other than TRUE fires cb in the same step, on entering
\* TRUE; set(false, cb) from TRUE stores cb and fires nothing when
\* BECOMING_FALSE begins; the timer expiry that lands FALSE fires the stored
\* callback; and no step that ends in BECOMING_FALSE fires a callback.
C22_CallbackOnlyWhenSettled ==
    [][/\ (lastOp'.op \in {"set", "toggle"} /\ lastOp'.arg = "changed"
           /\ nextCb' = nextCb + 1 /\ ~vis.disposed)
          => IF lastOp'.id = "true"
             THEN /\ vis'.state = TRUE_
                  /\ Callback(nextCb') \notin firedCbs
                  /\ firedCbs' = firedCbs \cup {Callback(nextCb')}
             ELSE /\ vis.state = TRUE_ /\ vis'.state = BECOMING_FALSE
                  /\ vis'.onChange = Callback(nextCb')
                  /\ firedCbs' = firedCbs
       /\ (lastOp'.op = "timer" /\ vis.state = BECOMING_FALSE
           /\ vis.onChange # NoCb /\ ~vis.disposed)
          => /\ vis'.state = FALSE_
             /\ firedCbs' = firedCbs \cup {vis.onChange}
       /\ firedCbs' # firedCbs => vis'.state # BECOMING_FALSE]_vars

\* a callback passed to set(true) has fired, and the exit delay of a later
\* set(false, cb) has just elapsed and fired cb
C22_Witness ==
    /\ lastOp = Op("timer", BECOMING_FALSE, "changed")
    /\ vis.state = FALSE_
    /\ vis.onChange # NoCb /\ vis.onChange \in firedCbs
    /\ Cardinality(firedCbs) >= 2

\* C23: set(false, cb) while the state is BECOMING_FALSE or FALSE changes
\* nothing: the state, the pending timer and the stored callback stay as
\* they were and nothing fires. cb is never invoked: a callback is stored
\* only by a set that changes the state, and only the stored callback fires.
C23_SetFalseWhenNotTrueIsNoOp ==
    [][/\ (lastOp'.op = "set" /\ lastOp'.id = "false"
           /\ vis.state \in {BECOMING_FALSE, FALSE_})
          => /\ lastOp'.arg = "noop"
             /\ vis' = vis /\ firedCbs' = firedCbs /\ att' = att
       /\ (vis'.onChange # NoCb /\ vis'.onChange # vis.onChange)
          => /\ lastOp'.arg = "changed"
             /\ nextCb' = nextCb + 1 /\ vis'.onChange = Callback(nextCb')
       /\ firedCbs' \ firedCbs \subseteq {vis'.onChange} \ {NoCb}]_vars

\* set(false, cb) was called during an exit that had its own callback: the
\* timer is still pending, the earlier callback is still the stored one
C23_Witness ==
    /\ lastOp = Op("set", "false", "noop")
    /\ vis.state = BECOMING_FALSE
    /\ vis.timers = {vis.timeout}
    /\ vis.onChange # NoCb
    /\ \E k \in 1..MaxCbs : vis.onChange = Callback(k) /\ k < nextCb
    /\ Callback(nextCb) \notin firedCbs

\* the once listeners queued under 'lazybool-animation'
AnimQueued(a) == SelectSeq(a.listeners, LAMBDA d : d.key = AnimKey)
\* the invocations of such listeners in a log
AnimApplied(l) == SelectSeq(l, LAMBDA e : e.ev = "handler" /\ e.key = AnimKey)

\* C25 as stated: the class swap of every transition that happened without
\* an element is applied; a queued swap leaves the queue only in a step
\* that applies it to a present element.
C25_EveryQueuedSwapApplied ==
    [][\A i \in 1..Len(AnimQueued(att)) :
          \/ \E j \in 1..Len(AnimQueued(att')) :
                AnimQueued(att')[j].func = AnimQueued(att)[i].func
          \/ \E j \in 1..Len(AnimApplied(log')) :
                /\ AnimApplied(log')[j].func = AnimQueued(att)[i].func
                /\ AnimApplied(log')[j].el \in Elements]_vars

\* C25: a transition to TRUE or BECOMING_FALSE of an instance that was not
\* released, while no element is bound, leaves exactly one once listener
\* queued under 'lazybool-animation', the one with the class swap of that
\* transition (a swap still queued from an earlier transition is replaced
\* and never applied). A swap is queued only while no element is bound.
\* The first later attach of a present element applies the queued swap
\* exactly once, to that element, and empties the queue, and no attach on a
\* bound element applies a swap.
C25_QueuedSwapAppliedOnce ==
    /\ [](/\ Len(AnimQueued(att)) <= 1
          /\ \A i \in 1..Len(AnimQueued(att)) : AnimQueued(att)[i].once
          /\ att.element_ # None => AnimQueued(att) = <<>>)
    /\ [][/\ (lastOp'.op \in {"set", "toggle"} /\ lastOp'.arg = "changed"
              /\ vis'.state # FALSE_ /\ att.element_ = None /\ ~vis.disposed)
             => /\ Len(AnimQueued(att')) = 1
                /\ AnimQueued(att')[1].func =
                      IF vis'.state = TRUE_ THEN AnimFunc ELSE AnimOutFunc
          /\ (lastOp'.op = "attach" /\ lastOp'.arg \in Elements
              /\ att.element_ = None /\ AnimQueued(att) # <<>>)
             => /\ Len(AnimApplied(log')) = 1
                /\ AnimApplied(log')[1].func = AnimQueued(att)[1].func
                /\ AnimApplied(log')[1].el = lastOp'.arg
                /\ att'.element_ = lastOp'.arg
                /\ AnimQueued(att') = <<>>
          /\ (lastOp'.op = "attach" /\ (att.element_ # None \/ AnimQueued(att) = <<>>))
             => AnimApplied(log') = <<>>
          /\ lastOp'.op # "attach" => AnimApplied(log') = <<>>]_vars

\* the exit swap, queued while no element was bound, has just been applied
\* to the element mounted after the exit delay had elapsed
C25_Witness ==
    /\ lastOp = Op("attach", "changed", "e1")
    /\ att.element_ = "e1"
    /\ att.listeners = <<>>
    /\ Len(log) = 1 /\ log[1].ev = "handler"
    /\ log[1].func = AnimOutFunc /\ log[1].el = "e1"
    /\ vis.state = FALSE_

\* C27: cleanup() cancels the pending delayed transition, so that after it
\* no timer is pending that could change the state or fire a callback; it
\* changes neither the state nor the set of fired callbacks; a second
\* cleanup() changes nothing; and no step of a released instance fires a
\* callback.
C27_CleanupCancelsAndIsIdempotent ==
    /\ [](lastOp.op = "cleanup" => (vis.timers = {} /\ vis.onChange = NoCb))
    /\ [][/\ lastOp'.op = "cleanup"
             => /\ vis'.disposed
                /\ vis'.state = vis.state
                /\ firedCbs' = firedCbs /\ att' = att
          /\ (lastOp.op = "cleanup" /\ lastOp'.op = "cleanup")
             => vis' = vis
          /\ (lastOp.op = "cleanup" \/ vis.disposed) => firedCbs' = firedCbs]_vars

\* cleanup() was called during an exit whose callback never fired, and was
\* called again
C27_Witness ==
    /\ lastOp.op = "cleanup"
    /\ vis.state = BECOMING_FALSE
    /\ vis.disposed
    /\ vis.timeout # 0
    /\ firedCbs = {}
    /\ nextCb > 0

(***************************************************************************)
(* Properties of the Attachment (checked under SpecAttach)                 *)
(***************************************************************************)
\* the listeners of ls that hold a cleanupFn, in registration order
WithCleanup(ls) == SelectSeq(ls, LAMBDA d : d.cleanupFn # 0)

\* the step is an attach(el) that changes the bound element to a present one
ElementChange ==
    /\ document
    /\ lastOp'.op = "attach" /\ lastOp'.id = "changed"
    /\ lastOp'.arg \in Elements

\* C6: every change of the bound element to another element, with non-once
\* listeners only, makes exactly one cleanup pass over the listeners of the
\* previous element, in registration order, and after it exactly one handler
\* pass over all listeners, in registration order, with the new element.
C6_OnePassEach ==
    [][(ElementChange /\ \A i \in 1..Len(att.listeners) : ~att.listeners[i].once)
        => LET ls == att.listeners
               old == IF att.element_ # None THEN WithCleanup(ls) ELSE <<>>
               c == Len(old)
           IN  /\ Len(log') = c + Len(ls)
               /\ \A i \in 1..c :
                    /\ log'[i].ev = "cleanup"
                    /\ log'[i].key = old[i].key
                    /\ log'[i].disp = old[i].cleanupFn
               /\ \A j \in 1..Len(ls) :
                    /\ log'[c + j].ev = "handler"
                    /\ log'[c + j].key = ls[j].key
                    /\ log'[c + j].func = ls[j].func
                    /\ log'[c + j].el = lastOp'.arg]_vars

\* an element swap with two listeners: two cleanups, then two handlers
C6_Witness ==
    /\ lastOp.op = "attach" /\ lastOp.id = "changed" /\ lastOp.arg \in Elements
    /\ Len(log) = 4
    /\ log[1].ev = "cleanup" /\ log[2].ev = "cleanup"
    /\ log[3].ev = "handler" /\ log[4].ev = "handler"
    /\ log[3].key = "default" /\ log[4].key = "k1"

\* C7: every disposer returned by a handler invocation is invoked at most once.
C7_CleanupAtMostOnce ==
    \A d \in 1..MaxDisp : calls[d] <= 1

\* C8: no handler is ever invoked with undefined.
C8_HandlerGetsElement ==
    \A i \in 1..Len(log) : log[i].ev = "handler" => log[i].el # None

\* C9 as stated: onAttach with an element bound invokes the handler with the
\* bound element as part of the onAttach call.
C9_FiresWhenBound ==
    (lastOp.op = "onAttach" /\ lastOp.arg = "bound")
        => \E i \in 1..Len(log) :
              /\ log[i].ev = "handler"
              /\ log[i].key = lastOp.id
              /\ log[i].el = att.element_

\* the listener stored under key, if any
Stored(a, key) == SelectSeq(a.listeners, LAMBDA d : d.key = key)

\* C9 amended: onAttach never invokes the handler, also when an element is
\* bound: it stores the listener without a cleanupFn.  The handler is invoked
\* by the next change of the element, where a returned disposer is stored, or,
\* for a once listener, run immediately and the listener removed.
C9_StoredUntilNextChange ==
    [][/\ lastOp'.op = "onAttach"
          => /\ \A i \in 1..Len(log') : log'[i].ev # "handler"
             /\ finv' = finv
             /\ Stored(att', lastOp'.id) = <<EventData(lastOp'.id, nextFunc', nextFunc' \in fonce')>>
             /\ att'.element_ = att.element_
       /\ (document /\ lastOp'.op = "attach" /\ lastOp'.id = "changed")
          => /\ \A j \in 1..Len(att.listeners) :
                  /\ \E i \in 1..Len(log') :
                       /\ log'[i].ev = "handler"
                       /\ log'[i].func = att.listeners[j].func
                       /\ log'[i].el = lastOp'.arg
                  /\ att.listeners[j].once
                       => Stored(att', att.listeners[j].key) = <<>>
             /\ \A d \in (nextDisp + 1)..nextDisp' :
                  \/ /\ calls'[d] = 0
                     /\ \E j \in 1..Len(att'.listeners) :
                          att'.listeners[j].cleanupFn = d /\ ~att'.listeners[j].once
                  \/ /\ calls'[d] = 1
                     /\ \A j \in 1..Len(att'.listeners) : att'.listeners[j].cleanupFn # d]_vars

\* onAttach was called with an element bound and did not invoke the handler
C9_Witness ==
    /\ lastOp.op = "onAttach" /\ lastOp.arg = "bound"
    /\ att.element_ \in Elements
    /\ finv[nextFunc] = 0
    /\ Stored(att, lastOp.id) # <<>>

\* C10: the handler of a once listener is invoked at most once, and once it
\* has been invoked its listener is no longer in the listener set.
C10_OnceAtMostOnce ==
    \A f \in fonce :
        /\ finv[f] <= 1
        /\ finv[f] = 1 => \A i \in 1..Len(att.listeners) : att.listeners[i].func # f

\* a once handler has fired and a later element change did not invoke it
C10_Witness ==
    /\ \E f \in fonce :
          /\ finv[f] = 1
          /\ \A i \in 1..Len(log) : log[i].func # f
    /\ lastOp.op = "attach" /\ lastOp.id = "changed"
    /\ document

\* an Attachment created without an initial handler
FreshAttachment == [element_ |-> None, listeners |-> <<>>]

\* C11: detach() without arguments leaves, from every reachable state, the
\* Attachment with no bound element and no listeners (attachment() is
\* undefined); an attach(e) that follows it does what attach(e) does on an
\* Attachment created without an initial handler: no handler and no disposer
\* runs, and (where a document exists) e is bound.
C11_DetachResets ==
    /\ [](lastOp.op = "detach"
            => (att = FreshAttachment /\ attachment(att) = None))
    /\ [][(lastOp.op = "detach" /\ lastOp'.op = "attach")
            => /\ att' = Attach(FreshAttachment, lastOp'.arg,
                               [i \in 1..Cardinality(Keys) |-> TRUE], nextDisp, document).a
               /\ log' = <<>>
               /\ calls' = calls /\ finv' = finv /\ nextDisp' = nextDisp
               /\ document => att' = [element_ |-> lastOp'.arg, listeners |-> <<>>]]_vars

\* detach() ran the disposers of a bound Attachment with listeners
C11_Witness ==
    /\ lastOp.op = "detach"
    /\ document
    /\ nextFunc = MaxFuncs
    /\ \E i \in 1..Len(log) : log[i].ev = "cleanup"
    /\ att = FreshAttachment

\* C19: detach({eventsOnly: true, clearEvents: false, clearDefaultEvent:
\* false}) without a key throws, and no other combination of the three flags
\* does; the throwing call invokes no cleanup and leaves the bound element,
\* the listeners and their stored disposers as they were.
C19_IncompatibleFlagsThrow ==
    [][lastOp'.op = "detachOptions"
       => /\ (lastOp'.arg = "throws") <=> (lastOp'.id = "eventsOnly alone")
          /\ lastOp'.id = "eventsOnly alone"
             => (att' = att /\ log' = <<>> /\ calls' = calls)]_vars

\* the rejected detach on a bound Attachment holding a disposer not yet run
C19_Witness ==
    /\ lastOp = Op("detachOptions", "eventsOnly alone", "throws")
    /\ att.element_ \in Elements
    /\ \E i \in 1..Len(att.listeners) :
          /\ att.listeners[i].cleanupFn # 0
          /\ calls[att.listeners[i].cleanupFn] = 0

\* C20: attach(e) with e the bound element, attach(undefined) with nothing
\* bound included, invokes no handler and no disposer and leaves the bound
\* element and the listeners unchanged.
C20_AttachSameIsNoOp ==
    [][(lastOp'.op = "attach" /\ lastOp'.arg = att.element_)
          => /\ lastOp'.id = "same"
             /\ att' = att
             /\ log' = <<>>
             /\ calls' = calls /\ finv' = finv /\ nextDisp' = nextDisp]_vars

\* attach of the bound element again, with a listener holding a disposer
C20_Witness ==
    /\ lastOp.op = "attach" /\ lastOp.id = "same"
    /\ lastOp.arg \in Elements /\ att.element_ = lastOp.arg
    /\ document
    /\ \E i \in 1..Len(att.listeners) :
          /\ att.listeners[i].cleanupFn # 0
          /\ calls[att.listeners[i].cleanupFn] = 0

\* positions in the log l of the invocations of disposer d
CleanupsOf(l, d) == {j \in 1..Len(l) : l[j].ev = "cleanup" /\ l[j].disp = d}
\* positions in the log l of the invocations of handler f
HandlersOf(l, f) == {j \in 1..Len(l) : l[j].ev = "handler" /\ l[j].func = f}

\* C24: in every step of attach, onAttach and detach (all forms), a listener
\* that holds a disposer which was never invoked has that disposer invoked
\* before its handler is invoked again, and has it invoked if the step
\* removes the listener.
C24_DisposerBeforeReinvokeOrRemoval ==
    [][\A i \in 1..Len(att.listeners) :
          LET data == att.listeners[i]
              cl == CleanupsOf(log', data.cleanupFn)
              hs == HandlersOf(log', data.func)
          IN  (data.cleanupFn # 0 /\ calls[data.cleanupFn] = 0)
              => /\ hs # {} => \E j \in cl : \A h \in hs : j < h
                 /\ (\A k \in 1..Len(att'.listeners) : att'.listeners[k].func # data.func)
                    => cl # {}]_vars

\* C26: a listener holds a cleanupFn only while an element is bound, and the
\* disposer it holds has not been run.
C26_CleanupOnlyForBoundElement ==
    \A i \in 1..Len(att.listeners) :
        att.listeners[i].cleanupFn # 0
        => /\ att.element_ # None
           /\ calls[att.listeners[i].cleanupFn] = 0

\* C28: the listener set holds at most one listener per key. onAttach under
\* a key that has a listener invokes the cleanupFn of that listener (if it
\* holds one) and nothing else, and puts the new listener in its place, all
\* other listeners staying as they are. A handler that is not in the
\* listener set is not invoked, so a replaced handler never runs again.
C28_OnAttachReplacesAfterCleanup ==
    /\ [](\A i, j \in 1..Len(att.listeners) :
             att.listeners[i].key = att.listeners[j].key => i = j)
    /\ [][/\ (lastOp'.op = "onAttach" /\ Stored(att, lastOp'.id) # <<>>)
             => LET i == IndexOf(att.listeners, lastOp'.id)
                IN  /\ log' = CallCleanup(att.listeners[i])
                    /\ att'.listeners =
                          [att.listeners EXCEPT ![i] =
                              EventData(lastOp'.id, nextFunc', nextFunc' \in fonce')]
                    /\ att.listeners[i].func # nextFunc'
                    /\ att'.element_ = att.element_
          /\ \A f \in 1..MaxFuncs :
                finv'[f] # finv[f]
                => \E i \in 1..Len(att.listeners) : att.listeners[i].func = f]_vars

\* a listener that held a disposer was replaced under its key, the disposer
\* ran in the onAttach call, and the element changed afterwards without the
\* replaced handler running
C28_Witness ==
    /\ lastOp.op = "attach" /\ lastOp.id = "changed" /\ lastOp.arg \in Elements
    /\ Len(att.listeners) = 1
    /\ att.listeners[1].func = 2
    /\ finv[1] = 1 /\ finv[2] = 1
    /\ calls[1] = 1
    /\ HandlersOf(log, 1) = {} /\ HandlersOf(log, 2) # {}

\* C29: detach(k) and detach({key: k}) with a string k invoke the cleanupFn
\* of the listener stored under k and no other, remove that listener and no
\* other, leave the bound element as it is, and return true iff a listener
\* was stored under k.
C29_DetachKeyOnlyThatListener ==
    [][lastOp'.op = "detachKey"
          => LET old == Stored(att, lastOp'.id)
             IN  /\ log' = IF old # <<>> THEN CallCleanup(old[1]) ELSE <<>>
                 /\ att'.listeners = SelectSeq(att.listeners, LAMBDA d : d.key # lastOp'.id)
                 /\ att'.element_ = att.element_
                 /\ lastOp'.arg = IF old # <<>> THEN "true" ELSE "false"]_vars

\* C30: detach with flags and no key, when it does not throw: with
\* clearEvents and clearDefaultEvent no listener is left; with clearEvents
\* only, the "default" listener and no other is left; with
\* clearDefaultEvent only, every listener but "default" is left; with
\* neither, all are left; and the element is unbound iff eventsOnly is false.
C30_FlagsSelectListeners ==
    [][(lastOp'.op = "detachOptions" /\ lastOp'.arg = "done")
       => \A ce \in BOOLEAN, cde \in BOOLEAN, eo \in BOOLEAN :
          (/\ ~DetachThrows(ce, cde, eo)
           /\ att' = DetachOptions(att, ce, cde, eo).a
           /\ log' = DetachOptions(att, ce, cde, eo).log)
          => /\ att'.listeners =
                   IF ce /\ cde THEN <<>>
                   ELSE IF ce THEN Stored(att, "default")
                   ELSE IF cde THEN SelectSeq(att.listeners, LAMBDA d : d.key # "default")
                   ELSE att.listeners
             /\ att'.element_ = IF eo THEN att.element_ ELSE None]_vars

\* detach({clearDefaultEvent: false, eventsOnly: true}) on a bound
\* Attachment with two listeners: the one under "k1" is gone after its
\* cleanup, "default" and the element are still there
C30_Witness ==
    /\ lastOp = Op("detachOptions", "", "done")
    /\ att.element_ \in Elements
    /\ Len(att.listeners) = 1 /\ att.listeners[1].key = "default"
    /\ \E j \in 1..Len(log) : log[j].ev = "cleanup" /\ log[j].key = "k1"

(***************************************************************************)
(* Properties of getOverlaysByPortal (checked under SpecPortal)            *)
(***************************************************************************)
\* the registerOverlay calls whose id was not unregistered afterwards
Live(i) ==
    /\ registrations[i].op = "register"
    /\ \A j \in (i + 1)..Len(registrations) :
         /\ registrations[j].op # "providerCleanup"
         /\ ~(registrations[j].op = "unregister" /\ registrations[j].id = registrations[i].id)

LiveCalls(id) == {i \in 1..Len(registrations) : Live(i) /\ registrations[i].id = id}

Smallest(S) == CHOOSE n \in S : \A m \in S : n <= m
Largest(S) == CHOOSE n \in S : \A m \in S : m <= n

RECURSIVE Ascending(_)
Ascending(S) == IF S = {} THEN <<>> ELSE <<Smallest(S)>> \o Ascending(S \ {Smallest(S)})

\* the calls that registered the current entries with that target
CurrentCalls(target) ==
    {i \in 1..Len(registrations) :
        /\ Live(i)
        /\ i = Largest(LiveCalls(registrations[i].id))
        /\ registrations[i].portalTarget = target}

\* the renderers of the current entries with that target in the order of the
\* calls that registered them
InRegistrationOrder(target) ==
    LET calls_ == Ascending(CurrentCalls(target))
    IN  [n \in 1..Len(calls_) |-> registrations[calls_[n]].contentComponent]

\* the renderers of the current entries with that target in the order in
\* which their ids were first registered since they were last unregistered
InFirstRegistrationOrder(target) ==
    LET ids == {registrations[i].id : i \in CurrentCalls(target)}
        firsts == Ascending({Smallest(LiveCalls(id)) : id \in ids})
    IN  [n \in 1..Len(firsts) |->
            registrations[Largest(LiveCalls(registrations[firsts[n]].id))].contentComponent]

\* C31 as stated: getOverlaysByPortal(target) is the renderers of the
\* currently registered entries with that portalTarget, in the order in which
\* these entries were registered
C31_InRegistrationOrder ==
    \A target \in PortalTargets : getOverlaysByPortal(target) = InRegistrationOrder(target)

\* C31: getOverlaysByPortal(target) is exactly the renderers of the currently
\* registered entries whose portalTarget is target, none of an unregistered
\* or replaced entry, in the order in which their ids were first registered
\* since they were last unregistered (an entry registered again under its id
\* keeps the position of the entry it replaces)
C31_InOrderOfFirstRegistration ==
    /\ {overlayList[i].id : i \in 1..Len(overlayList)} = {id \in Ids : Registered(id)}
    /\ \A id \in Ids : Registered(id) <=> LiveCalls(id) # {}
    /\ \A target \in PortalTargets :
         getOverlaysByPortal(target) = InFirstRegistrationOrder(target)

\* A, then B, then A again with the same target: the third renderer is listed
\* before the second
C31_Witness ==
    /\ Len(registrations) = 3
    /\ getOverlaysByPortal("p1") = <<3, 2>>

(***************************************************************************)
(* Properties of the key and click listeners (checked under SpecKeys)      *)
(***************************************************************************)
\* the overlays whose exit starts in this step
BeginClosing ==
    {id \in Ids : /\ Registered(id) /\ ovis[id].state = TRUE_
                  /\ ovis'[id] # NoVis /\ ovis'[id].state = BECOMING_FALSE}

====
